---------------------------- MODULE Spec2Model ----------------------------
(***************************************************************************)
(* A model of the mech3ax animation-script record codecs: the fixed-size   *)
(* records of crates/mech3ax-anim (object motion, object connector, object *)
(* motion from-to, light animation, object opacity state, call object      *)
(* connector, activation prerequisite) and the offset-tracking reader of   *)
(* crates/mech3ax-common/src/io_ext.                                       *)
(*                                                                         *)
(* A raw record is a function from the field names of its #[repr(C)]       *)
(* struct to bit patterns.  A float is one of a few named bit patterns, so *)
(* that +0.0 and -0.0 are different bytes and equal numbers, and NaN is    *)
(* a bit pattern that equals nothing.  A flag word is the set of its set   *)
(* bit positions.  A text is a sequence of byte values.                    *)
(***************************************************************************)
EXTENDS Integers, Sequences, FiniteSets, TLC

VARIABLES
    kind,      \* the record type this run encodes and decodes
    pc,        \* "value" -> "encoded" -> "decoded" -> "reencoded"
    value,     \* the semantic value handed to write
    edits,     \* how many groups of value were changed from its baseline
    sink,      \* what write emitted: a sequence of write_all chunks
    wok,       \* whether write returned Ok
    record,    \* the record image handed to read
    pokes,     \* how many fields of record were overwritten after the write
    at,        \* the stream offset the record starts at
    declared,  \* the size the caller of read declared
    reader,    \* the CountingReader: [offset, prev]
    result,    \* what read returned
    sink2,     \* what write emitted for the decoded value
    wok2,      \* whether that second write returned Ok
    io,        \* position of the stream run: "idle", "stream", "gamez", ...
    gamez,     \* the GameZ value handed to write_gamez
    gfile,     \* the gamez file a reader finds
    gpokes,    \* how many times gfile was changed after the write
    cr,        \* a CountingReader over a byte stream: [inner, offset, prev]
    call,      \* the most recent call on cr, and the history of the calls
    gres,      \* what read_gamez returned
    lpc,       \* position of the list run: "idle", "list", "written", "read"
    prereqs,   \* the ActivationPrereq list handed to write_activ_prereqs
    psink,     \* what write_activ_prereqs emitted: a sequence of write_all chunks
    precs,     \* the prerequisites a reader finds in its stream
    ppokes,    \* how many times precs was changed after the write
    pcount,    \* the count handed to read_activ_prereqs
    pat,       \* the stream offset the first prerequisite starts at
    pres,      \* what read_activ_prereqs returned
    cpc,       \* position of the command run: "idle", "start", "done"
    cmd,       \* the unzbd command that is run
    cin,       \* the command's options and its input asset
    cout,      \* the output path: whether a file is there, and what it holds
    cres,      \* what the command returned
    pe_pc,     \* position of the address run: "idle", "start", "real", "virt"
    pe_section,\* an IMAGE_SECTION_HEADER
    pe_virt,   \* the virtual address handed to virt_to_real
    pe_build,  \* whether the build checks integer overflow (debug) or wraps
    pe_real,   \* what virt_to_real returned
    pe_back    \* what real_to_virt returned for that file offset

recVars ==
    <<kind, pc, value, edits, sink, wok, record, pokes, at, declared, reader, result,
      sink2, wok2>>
ioVars == <<io, gamez, gfile, gpokes, cr, call, gres>>
listVars == <<lpc, prereqs, psink, precs, ppokes, pcount, pat, pres>>
cmdVars == <<cpc, cmd, cin, cout, cres>>
peVars == <<pe_pc, pe_section, pe_virt, pe_build, pe_real, pe_back>>
vars == <<recVars, ioVars, listVars, cmdVars, peVars>>

\* what the actions of one run leave alone
notRecVars == <<ioVars, listVars, cmdVars, peVars>>
notIoVars == <<recVars, listVars, cmdVars, peVars>>
notListVars == <<recVars, ioVars, cmdVars, peVars>>
notCmdVars == <<recVars, ioVars, listVars, peVars>>
notPeVars == <<recVars, ioVars, listVars, cmdVars>>

-----------------------------------------------------------------------------
(* Bounds of the model.                                                    *)

\* how many optional groups of a value may differ from its baseline
MaxEdits == 1
\* how many fields of an encoded record may be overwritten before the read
MaxPokes == 1
\* entries of the node, sound and light tables of the cross-reference context
NumNodes == 2
NumSounds == 2
NumLights == 2

-----------------------------------------------------------------------------
(* Scalars.                                                                *)

\* f32 bit patterns
F32 == {"+0", "-0", "0.5", "1", "-1", "6", "-6", "nan"}

\* twice the number a (non-NaN) bit pattern denotes
FNum(f) ==
    CASE f = "+0" -> 0
      [] f = "-0" -> 0
      [] f = "0.5" -> 1
      [] f = "1" -> 2
      [] f = "-1" -> -2
      [] f = "6" -> 12
      [] f = "-6" -> -12
      [] OTHER -> 0

\* f32 == f32 (IEEE: -0.0 == 0.0, NaN equals nothing)
FEq(a, b) == a # "nan" /\ b # "nan" /\ FNum(a) = FNum(b)
\* f32 > 0.0
FPos(a) == a # "nan" /\ FNum(a) > 0
\* a <= b and a >= b on f32
FLe(a, b) == a # "nan" /\ b # "nan" /\ FNum(a) <= FNum(b)
FGe(a, b) == FLe(b, a)

Vec3_EMPTY == <<"+0", "+0", "+0">>
Vec4_EMPTY == <<"+0", "+0", "+0", "+0">>
\* the derived PartialEq of Vec3: componentwise f32 ==
Vec3Eq(a, b) == FEq(a[1], b[1]) /\ FEq(a[2], b[2]) /\ FEq(a[3], b[3])

\* bool_c!: a bool as an integer
bool_c(b) == IF b THEN 1 ELSE 0

\* Option<T>: the empty tuple, or the payload in a 1-tuple
None == <<>>
Some(x) == <<x>>
IsSome(o) == o # <<>>
Get(o) == o[1]

-----------------------------------------------------------------------------
(* Fixed-length text fields.                                               *)

NAME_LEN == 32

Zeros(n) == [i \in 1..n |-> 0]

\* str_to_c_padded: the text left-aligned, the rest of the buffer zero
str_to_c_padded(s) == [i \in 1..NAME_LEN |-> IF i <= Len(s) THEN s[i] ELSE 0]

\* index of the first NUL of a buffer, or its length + 1
FirstNul(buf) ==
    IF \E i \in 1..Len(buf) : buf[i] = 0
    THEN CHOOSE i \in 1..Len(buf) : buf[i] = 0 /\ \A j \in 1..(i - 1) : buf[j] # 0
    ELSE Len(buf) + 1

\* the bytes before the first NUL
CPrefix(buf) == SubSeq(buf, 1, FirstNul(buf) - 1)

\* whether a byte sequence is valid UTF-8 (the model's bytes are ASCII or 255)
IsUtf8(s) == \A i \in 1..Len(s) : s[i] < 128

\* str_from_c_padded under assert_utf8: the text, or no text
str_from_c_padded(buf) == CPrefix(buf)
str_from_c_padded_ok(buf) == IsUtf8(CPrefix(buf))

\* assert_all_zero
all_zero(buf) == \A i \in 1..Len(buf) : buf[i] = 0

-----------------------------------------------------------------------------
(* The cross-reference context (AnimDef): index-stable name tables.        *)

NodeTable == [i \in 1..NumNodes |-> <<110, 48 + i>>]
SoundTable == [i \in 1..NumSounds |-> <<115, 48 + i>>]
LightTable == [i \in 1..NumLights |-> <<108, 48 + i>>]

\* the "input node" sentinel name
INPUT_NODE == <<73, 78>>

InTable(t, name) == \E i \in DOMAIN t : t[i] = name
\* name -> index, defined when InTable
to_index(t, name) == CHOOSE i \in DOMAIN t : t[i] = name
\* index -> name, defined when the index is in the table
HasIndex(t, i) == i \in DOMAIN t
from_index(t, i) == t[i]

-----------------------------------------------------------------------------
(* Results and ordered checks.                                             *)

NoVal == [none |-> TRUE]

\* one validation step of a read, in source order
Check(label, cond, off) == [pass |-> cond, label |-> label, off |-> off]

Ok(v, r) == [ok |-> TRUE, val |-> v, label |-> "", off |-> 0, rd |-> r]
Err(c, r) == [ok |-> FALSE, val |-> NoVal, label |-> c.label, off |-> c.off, rd |-> r]

Failing(checks) == {i \in 1..Len(checks) : ~checks[i].pass}
FirstFail(checks) == CHOOSE i \in Failing(checks) : \A j \in Failing(checks) : i <= j

-----------------------------------------------------------------------------
(* The offset-tracking reader and the sink.                                *)

\* a variant read_exact that records the offset after the transfer as prev
read_exact_prev_after(r, n) == [offset |-> r.offset + n, prev |-> r.offset + n]

\* CountingReader::read_exact on a stream that holds the bytes (the offsets of
\* the model stay far below 2^32, where the u32 addition would overflow)
read_exact(r, n) == [offset |-> r.offset + n, prev |-> r.offset]

\* repr(C) size of a struct: fields in order at their alignment
AlignUp(n, a) == ((n + a - 1) \div a) * a
RECURSIVE EndOffset(_, _)
EndOffset(layout, n) ==
    IF n = 0 THEN 0
    ELSE AlignUp(EndOffset(layout, n - 1), layout[n].align) + layout[n].size
MaxAlign(layout) ==
    CHOOSE a \in {layout[i].align : i \in 1..Len(layout)} :
        \A i \in 1..Len(layout) : layout[i].align <= a
LayoutSize(layout) == AlignUp(EndOffset(layout, Len(layout)), MaxAlign(layout))
\* a #[repr(C)] struct type: its fields and its std::mem::size_of
Struct(layout) == [fields |-> layout, size |-> LayoutSize(layout)]
size_of(S) == S.size
FieldNames(S) == {S.fields[i].name : i \in 1..Len(S.fields)}

\* a variant field type: a float that takes eight bytes
Ff32_wide(n) == [name |-> n, ty |-> "f32", size |-> 8, align |-> 8]

\* field types of the record structs
Fu32(n) == [name |-> n, ty |-> "u32", size |-> 4, align |-> 4]
Fu16(n) == [name |-> n, ty |-> "u16", size |-> 2, align |-> 2]
Fi16(n) == [name |-> n, ty |-> "i16", size |-> 2, align |-> 2]
Ff32(n) == [name |-> n, ty |-> "f32", size |-> 4, align |-> 4]
Fvec2(n) == [name |-> n, ty |-> "vec2", size |-> 8, align |-> 4]
Fvec3(n) == [name |-> n, ty |-> "vec3", size |-> 12, align |-> 4]
Fname(n) == [name |-> n, ty |-> "name", size |-> NAME_LEN, align |-> 1]
Fflags(n) == [name |-> n, ty |-> "flags", size |-> 4, align |-> 4]

\* WriteHelper::write_struct: one write_all of size_of::<S>() bytes
write_struct(S, img) == <<[size |-> size_of(S), img |-> img]>>
\* WriteHelper::write_u32
write_u32(v) == <<[size |-> 4, img |-> v]>>

SinkBytes(s) ==
    LET RECURSIVE Sum(_)
        Sum(n) == IF n = 0 THEN 0 ELSE Sum(n - 1) + s[n].size
    IN Sum(Len(s))

\* a failed write: nothing emitted
WErr == [ok |-> FALSE, sink |-> <<>>]
WOk(s) == [ok |-> TRUE, sink |-> s]

\* a read: the size assertion, the record transfer, then the field checks
ReadRecord(sizeLabel, SIZE, layout, checks(_, _), mk(_), r0, c, size) ==
    LET sz == Check(sizeLabel, size = SIZE, r0.offset)
        r1 == read_exact(r0, size_of(layout))
        cs == checks(c, r1.prev)
    IN IF ~sz.pass THEN Err(sz, r0)
       ELSE IF Failing(cs) = {} THEN Ok(mk(c), r1)
       ELSE Err(cs[FirstFail(cs)], r1)

-----------------------------------------------------------------------------
(* Object opacity state (object_opacity_state.rs).                         *)

ObjectOpacityStateC ==
    Struct(<<Fu16("is_set"), Fu16("state"), Ff32("opacity"), Fu32("node_index")>>)

OOS_SIZE == 12

\* assert_that!(label, bool x, off): x must be exactly 0 or 1
IsBoolC(x) == x \in {0, 1}

\* a variant read that leaves the opacity unchecked
OOS_checks_unranged(c, prev) ==
    << Check("object opacity state is set", IsBoolC(c.is_set), prev + 0),
       Check("object opacity state state", IsBoolC(c.state), prev + 2),
       Check("node index", HasIndex(NodeTable, c.node_index), prev + 8) >>

\* lines 33-39
OOS_checks(c, prev) ==
    << Check("object opacity state is set", IsBoolC(c.is_set), prev + 0),
       Check("object opacity state state", IsBoolC(c.state), prev + 2),
       Check("object opacity state opacity",
             FLe("+0", c.opacity) /\ FLe(c.opacity, "1"), prev + 4),
       Check("node index", HasIndex(NodeTable, c.node_index), prev + 8) >>

OOS_value(c) ==
    [node |-> from_index(NodeTable, c.node_index),
     is_set |-> c.is_set = 1,
     state |-> c.state = 1,
     opacity |-> c.opacity]

\* a variant read that takes whatever size the caller declares
ObjectOpacityState_read_unsized(r0, c, size) ==
    ReadRecord("object opacity state size", size, ObjectOpacityStateC,
               OOS_checks, OOS_value, r0, c, size)

ObjectOpacityState_read(r0, c, size) ==
    ReadRecord("object opacity state size", OOS_SIZE, ObjectOpacityStateC,
               OOS_checks, OOS_value, r0, c, size)

OOS_image(v) ==
    [is_set |-> bool_c(v.is_set),
     state |-> bool_c(v.state),
     opacity |-> v.opacity,
     node_index |-> to_index(NodeTable, v.node)]

ObjectOpacityState_write(v) ==
    IF ~InTable(NodeTable, v.node) THEN WErr
    ELSE WOk(write_struct(ObjectOpacityStateC, OOS_image(v)))

-----------------------------------------------------------------------------
(* Object motion (object_motion.rs).                                       *)

ObjectMotionC ==
    Struct(<< Fflags("flags"), Fu32("node_index"),
       Ff32("zero008"), Ff32("gravity"), Ff32("zero016"),
       Ff32("trans_range_min_1"), Ff32("trans_range_max_1"),
       Ff32("trans_range_min_2"), Ff32("trans_range_max_2"),
       Ff32("trans_range_min_3"), Ff32("trans_range_max_3"),
       Ff32("trans_range_min_4"), Ff32("trans_range_max_4"),
       Fvec3("trans_delta"), Fvec3("trans_initial"),
       Fvec3("trans_delta_copy"), Fvec3("trans_initial_copy"), Fvec3("unk100"),
       Ff32("forward_rotation_1"), Ff32("forward_rotation_2"), Ff32("zero120"),
       Fvec3("xyz_rotation"), Fvec3("unk136"), Fvec3("xyz_rotation_copy"),
       Fvec3("scale"), Fvec3("unk172"), Fvec3("scale_copy"),
       Fname("bounce_seq0_name"), Fi16("bounce_seq0_sentinel"),
       Fu16("bounce_snd0_index"), Ff32("bounce_snd0_volume"),
       Fname("bounce_seq1_name"), Fi16("bounce_seq1_sentinel"),
       Fu16("bounce_snd1_index"), Ff32("bounce_snd1_volume"),
       Fname("bounce_seq2_name"), Fi16("bounce_seq2_sentinel"),
       Fu16("bounce_snd2_index"), Ff32("bounce_snd2_volume"),
       Ff32("runtime") >>)

OM_SIZE == 320

\* ObjectMotionFlags: bit positions
OM_GRAVITY == 0
OM_IMPACT_FORCE == 1
OM_TRANSLATION == 2
OM_TRANSLATION_MIN == 3
OM_TRANSLATION_MAX == 4
OM_XYZ_ROTATION == 5
OM_FORWARD_ROTATION_DISTANCE == 6
OM_FORWARD_ROTATION_TIME == 7
OM_SCALE == 8
OM_RUNTIME == 10
OM_BOUNCE_SEQ == 11
OM_BOUNCE_SOUND == 12
OM_GRAVITY_COMPLEX == 13
OM_GRAVITY_NO_ALTITUDE == 14

ObjectMotionFlags ==
    {OM_GRAVITY, OM_IMPACT_FORCE, OM_TRANSLATION, OM_TRANSLATION_MIN,
     OM_TRANSLATION_MAX, OM_XYZ_ROTATION, OM_FORWARD_ROTATION_DISTANCE,
     OM_FORWARD_ROTATION_TIME, OM_SCALE, OM_RUNTIME, OM_BOUNCE_SEQ,
     OM_BOUNCE_SOUND, OM_GRAVITY_COMPLEX, OM_GRAVITY_NO_ALTITUDE}

\* from_bits_truncate in place of from_bits: unknown bits are masked off
from_bits_truncate_ok(known, bits) == TRUE

\* bitflags from_bits: Some exactly when no unknown bit is set
from_bits_ok(known, bits) == bits \subseteq known

\* lines 146-164: flags, node, the two leading zero fields
OM_head_checks(c, prev) ==
    << Check("valid object motion flags", from_bits_ok(ObjectMotionFlags, c.flags), prev + 0),
       Check("node index", HasIndex(NodeTable, c.node_index), prev + 4),
       Check("object motion field 008", FEq(c.zero008, "+0"), prev + 8),
       Check("object motion field 016", FEq(c.zero016, "+0"), prev + 16) >>

\* lines 166-203
OM_gravity_checks(c, prev) ==
    LET gravity_complex == OM_GRAVITY_COMPLEX \in c.flags
        gravity_no_alitude == OM_GRAVITY_NO_ALTITUDE \in c.flags
    IN IF OM_GRAVITY \in c.flags
       THEN IF gravity_no_alitude
            THEN <<Check("object motion gravity complex", gravity_complex = FALSE, prev + 0)>>
            ELSE <<>>
       ELSE << Check("object motion gravity complex", gravity_complex = FALSE, prev + 0),
               Check("object motion gravity no altitude", gravity_no_alitude = FALSE, prev + 0),
               Check("object motion gravity value", FEq(c.gravity, "+0"), prev + 12) >>

OM_gravity(c) ==
    IF OM_GRAVITY \in c.flags
    THEN Some([mode |-> IF OM_GRAVITY_NO_ALTITUDE \in c.flags THEN "NoAltitude"
                        ELSE IF OM_GRAVITY_COMPLEX \in c.flags THEN "Complex"
                        ELSE "Local",
               value |-> c.gravity])
    ELSE None

\* lines 205-234
OM_trans_min_checks(c, prev) ==
    IF OM_TRANSLATION_MIN \in c.flags THEN <<>>
    ELSE << Check("object motion trans range min 1", FEq(c.trans_range_min_1, "+0"), prev + 20),
            Check("object motion trans range min 2", FEq(c.trans_range_min_2, "+0"), prev + 28),
            Check("object motion trans range min 3", FEq(c.trans_range_min_3, "+0"), prev + 36),
            Check("object motion trans range min 4", FEq(c.trans_range_min_4, "+0"), prev + 44) >>

OM_trans_min(c) ==
    IF OM_TRANSLATION_MIN \in c.flags
    THEN Some(<<c.trans_range_min_1, c.trans_range_min_2,
                c.trans_range_min_3, c.trans_range_min_4>>)
    ELSE None

\* lines 236-265
OM_trans_max_checks(c, prev) ==
    IF OM_TRANSLATION_MAX \in c.flags THEN <<>>
    ELSE << Check("object motion trans range max 1", FEq(c.trans_range_max_1, "+0"), prev + 24),
            Check("object motion trans range max 2", FEq(c.trans_range_max_2, "+0"), prev + 32),
            Check("object motion trans range max 3", FEq(c.trans_range_max_3, "+0"), prev + 40),
            Check("object motion trans range max 4", FEq(c.trans_range_max_4, "+0"), prev + 48) >>

OM_trans_max(c) ==
    IF OM_TRANSLATION_MAX \in c.flags
    THEN Some(<<c.trans_range_max_1, c.trans_range_max_2,
                c.trans_range_max_3, c.trans_range_max_4>>)
    ELSE None

\* lines 267-300
OM_translation_checks(c, prev) ==
    (IF OM_TRANSLATION \in c.flags THEN <<>>
     ELSE << Check("object motion trans delta", Vec3Eq(c.trans_delta, Vec3_EMPTY), prev + 52),
             Check("object motion trans initial", Vec3Eq(c.trans_initial, Vec3_EMPTY), prev + 64),
             Check("object motion field 100", Vec3Eq(c.unk100, Vec3_EMPTY), prev + 100) >>)
    \o << Check("object motion trans delta copy", Vec3Eq(c.trans_delta_copy, Vec3_EMPTY), prev + 76),
          Check("object motion trans initial copy", Vec3Eq(c.trans_initial_copy, Vec3_EMPTY), prev + 88) >>

OM_translation(c) ==
    IF OM_TRANSLATION \in c.flags
    THEN Some(<<c.trans_delta, c.trans_initial, c.unk100>>)
    ELSE None

\* a variant read that takes the time mode when both rotation bits are set
OM_fwd_rot_checks_time_first(c, prev) ==
    (IF OM_FORWARD_ROTATION_TIME \in c.flags THEN <<>>
     ELSE IF OM_FORWARD_ROTATION_DISTANCE \in c.flags
     THEN <<Check("object motion fwd rot 2", FEq(c.forward_rotation_2, "+0"), prev + 116)>>
     ELSE << Check("object motion fwd rot 1", FEq(c.forward_rotation_1, "+0"), prev + 112),
             Check("object motion fwd rot 2", FEq(c.forward_rotation_2, "+0"), prev + 116) >>)
    \o <<Check("object motion field 120", FEq(c.zero120, "+0"), prev + 120)>>

\* lines 302-338
OM_fwd_rot_checks(c, prev) ==
    LET forward_rotation_time == OM_FORWARD_ROTATION_TIME \in c.flags
        forward_rotation_dist == OM_FORWARD_ROTATION_DISTANCE \in c.flags
    IN (IF forward_rotation_time
        THEN <<Check("object motion fwd rot dist", forward_rotation_dist = FALSE, prev + 0)>>
        ELSE IF forward_rotation_dist
        THEN <<Check("object motion fwd rot 2", FEq(c.forward_rotation_2, "+0"), prev + 116)>>
        ELSE << Check("object motion fwd rot 1", FEq(c.forward_rotation_1, "+0"), prev + 112),
                Check("object motion fwd rot 2", FEq(c.forward_rotation_2, "+0"), prev + 116) >>)
       \o <<Check("object motion field 120", FEq(c.zero120, "+0"), prev + 120)>>

OM_fwd_rot(c) ==
    IF OM_FORWARD_ROTATION_TIME \in c.flags
    THEN Some(<<"Time", c.forward_rotation_1, c.forward_rotation_2>>)
    ELSE IF OM_FORWARD_ROTATION_DISTANCE \in c.flags
    THEN Some(<<"Distance", c.forward_rotation_1>>)
    ELSE None

\* a variant read that leaves the xyz rotation copy unchecked
OM_xyz_rot_checks_no_copy(c, prev) ==
    IF OM_XYZ_ROTATION \in c.flags THEN <<>>
    ELSE << Check("object motion xyz rot", Vec3Eq(c.xyz_rotation, Vec3_EMPTY), prev + 124),
            Check("object motion field 136", Vec3Eq(c.unk136, Vec3_EMPTY), prev + 136) >>

\* lines 340-359
OM_xyz_rot_checks(c, prev) ==
    (IF OM_XYZ_ROTATION \in c.flags THEN <<>>
     ELSE << Check("object motion xyz rot", Vec3Eq(c.xyz_rotation, Vec3_EMPTY), prev + 124),
             Check("object motion field 136", Vec3Eq(c.unk136, Vec3_EMPTY), prev + 136) >>)
    \o <<Check("object motion xyz rot copy", Vec3Eq(c.xyz_rotation_copy, Vec3_EMPTY), prev + 148)>>

OM_xyz_rot(c) ==
    IF OM_XYZ_ROTATION \in c.flags THEN Some(<<c.xyz_rotation, c.unk136>>) ELSE None

\* lines 361-380
OM_scale_checks(c, prev) ==
    (IF OM_SCALE \in c.flags THEN <<>>
     ELSE << Check("object motion scale", Vec3Eq(c.scale, Vec3_EMPTY), prev + 160),
             Check("object motion field 172", Vec3Eq(c.unk172, Vec3_EMPTY), prev + 172) >>)
    \o <<Check("object motion scale copy", Vec3Eq(c.scale_copy, Vec3_EMPTY), prev + 182)>>

OM_scale(c) ==
    IF OM_SCALE \in c.flags THEN Some(<<c.scale, c.unk172>>) ELSE None

\* lines 382-396
OM_sentinel_checks(c, prev) ==
    << Check("object motion bounce seq 0 sentinel", c.bounce_seq0_sentinel = -1, prev + 228),
       Check("object motion bounce seq 1 sentinel", c.bounce_seq1_sentinel = -1, prev + 268),
       Check("object motion bounce seq 2 sentinel", c.bounce_seq2_sentinel = -1, prev + 308) >>

\* one optional bounce sequence name: present when the slot's first byte is not 0
OM_seq_name_checks(label, buf, off) ==
    IF buf[1] # 0 THEN <<Check(label, str_from_c_padded_ok(buf), off)>> ELSE <<>>

OM_seq_name(buf) ==
    IF buf[1] # 0 THEN Some(str_from_c_padded(buf)) ELSE None

\* a variant read that lets a bounce sequence go without its first name
OM_bounce_seq_checks_unnamed(c, prev) ==
    IF OM_BOUNCE_SEQ \in c.flags
    THEN OM_seq_name_checks("object motion bounce seq 0 name", c.bounce_seq0_name, prev + 196)
         \o OM_seq_name_checks("object motion bounce seq 1 name", c.bounce_seq1_name, prev + 236)
         \o OM_seq_name_checks("object motion bounce seq 2 name", c.bounce_seq2_name, prev + 276)
    ELSE << Check("object motion bounce seq 0", all_zero(c.bounce_seq0_name), prev + 196),
            Check("object motion bounce seq 1", all_zero(c.bounce_seq1_name), prev + 236),
            Check("object motion bounce seq 2", all_zero(c.bounce_seq2_name), prev + 276) >>

\* lines 398-451
OM_bounce_seq_checks(c, prev) ==
    IF OM_BOUNCE_SEQ \in c.flags
    THEN (IF c.bounce_seq0_name[1] # 0
          THEN <<Check("object motion bounce seq 0 name",
                       str_from_c_padded_ok(c.bounce_seq0_name), prev + 196)>>
          ELSE <<Check("Expected at least one bounce sequence", FALSE, prev + 196)>>)
         \o OM_seq_name_checks("object motion bounce seq 1 name", c.bounce_seq1_name, prev + 236)
         \o OM_seq_name_checks("object motion bounce seq 2 name", c.bounce_seq2_name, prev + 276)
    ELSE << Check("object motion bounce seq 0", all_zero(c.bounce_seq0_name), prev + 196),
            Check("object motion bounce seq 1", all_zero(c.bounce_seq1_name), prev + 236),
            Check("object motion bounce seq 2", all_zero(c.bounce_seq2_name), prev + 276) >>

OM_bounce_seq(c) ==
    IF OM_BOUNCE_SEQ \in c.flags
    THEN Some(<<OM_seq_name(c.bounce_seq0_name), OM_seq_name(c.bounce_seq1_name),
                OM_seq_name(c.bounce_seq2_name)>>)
    ELSE None

\* lines 453-499
OM_bounce_sound_checks(c, prev) ==
    (IF OM_BOUNCE_SOUND \in c.flags
     THEN << Check("object motion bounce snd 0 vol", FPos(c.bounce_snd0_volume), prev + 232),
             Check("sound index", HasIndex(SoundTable, c.bounce_snd0_index), prev + 230) >>
     ELSE << Check("object motion bounce snd 0 index", c.bounce_snd0_index = 0, prev + 230),
             Check("object motion bounce snd 0 vol", FEq(c.bounce_snd0_volume, "+0"), prev + 232) >>)
    \o << Check("object motion bounce snd 1 index", c.bounce_snd1_index = 0, prev + 270),
          Check("object motion bounce snd 1 vol", FEq(c.bounce_snd1_volume, "+0"), prev + 272),
          Check("object motion bounce snd 2 index", c.bounce_snd2_index = 0, prev + 310),
          Check("object motion bounce snd 2 vol", FEq(c.bounce_snd2_volume, "+0"), prev + 312) >>

OM_bounce_sound(c) ==
    IF OM_BOUNCE_SOUND \in c.flags
    THEN Some([name |-> from_index(SoundTable, c.bounce_snd0_index),
               volume |-> c.bounce_snd0_volume])
    ELSE None

\* lines 501-515
OM_runtime_checks(c, prev) ==
    IF OM_RUNTIME \in c.flags
    THEN <<Check("object motion runtime", FPos(c.runtime), prev + 316)>>
    ELSE <<Check("object motion runtime", FEq(c.runtime, "+0"), prev + 316)>>

\* a variant read that drops the runtime
OM_runtime_lost(c) == None

OM_runtime(c) ==
    IF OM_RUNTIME \in c.flags THEN Some(c.runtime) ELSE None

\* lines 146-396: the checks that precede the bounce sequence
OM_checks_before_bounce_seq(c, prev) ==
    OM_head_checks(c, prev) \o OM_gravity_checks(c, prev)
    \o OM_trans_min_checks(c, prev) \o OM_trans_max_checks(c, prev)
    \o OM_translation_checks(c, prev) \o OM_fwd_rot_checks(c, prev)
    \o OM_xyz_rot_checks(c, prev) \o OM_scale_checks(c, prev)
    \o OM_sentinel_checks(c, prev)

OM_checks(c, prev) ==
    OM_checks_before_bounce_seq(c, prev) \o OM_bounce_seq_checks(c, prev)
    \o OM_bounce_sound_checks(c, prev) \o OM_runtime_checks(c, prev)

\* lines 517-530
OM_value(c) ==
    [node |-> from_index(NodeTable, c.node_index),
     gravity |-> OM_gravity(c),
     impact_force |-> OM_IMPACT_FORCE \in c.flags,
     translation_range_min |-> OM_trans_min(c),
     translation_range_max |-> OM_trans_max(c),
     translation |-> OM_translation(c),
     forward_rotation |-> OM_fwd_rot(c),
     xyz_rotation |-> OM_xyz_rot(c),
     scale |-> OM_scale(c),
     bounce_sequence |-> OM_bounce_seq(c),
     bounce_sound |-> OM_bounce_sound(c),
     runtime |-> OM_runtime(c)]

ObjectMotion_read(r0, c, size) ==
    ReadRecord("object motion size", OM_SIZE, ObjectMotionC, OM_checks, OM_value, r0, c, size)


\* a variant write that sets GRAVITY whether or not there is a gravity
OM_w_gravity_flags_always(self) == {OM_GRAVITY}

\* lines 536-546: the GRAVITY bits and the gravity field
OM_w_gravity_flags(self) ==
    IF IsSome(self.gravity)
    THEN {OM_GRAVITY}
         \cup (IF Get(self.gravity).mode = "Complex" THEN {OM_GRAVITY_COMPLEX} ELSE {})
         \cup (IF Get(self.gravity).mode = "NoAltitude" THEN {OM_GRAVITY_NO_ALTITUDE} ELSE {})
    ELSE {}

\* lines 569-579: the forward rotation bits
OM_w_fwd_rot_flags(self) ==
    IF ~IsSome(self.forward_rotation) THEN {}
    ELSE IF Get(self.forward_rotation)[1] = "Time" THEN {OM_FORWARD_ROTATION_TIME}
    ELSE {OM_FORWARD_ROTATION_DISTANCE}

\* lines 535-624: the flag word write builds
OM_w_flags(self) ==
    OM_w_gravity_flags(self)
    \cup (IF self.impact_force THEN {OM_IMPACT_FORCE} ELSE {})
    \cup (IF IsSome(self.translation_range_min) THEN {OM_TRANSLATION_MIN} ELSE {})
    \cup (IF IsSome(self.translation_range_max) THEN {OM_TRANSLATION_MAX} ELSE {})
    \cup (IF IsSome(self.translation) THEN {OM_TRANSLATION} ELSE {})
    \cup OM_w_fwd_rot_flags(self)
    \cup (IF IsSome(self.xyz_rotation) THEN {OM_XYZ_ROTATION} ELSE {})
    \cup (IF IsSome(self.scale) THEN {OM_SCALE} ELSE {})
    \cup (IF IsSome(self.bounce_sequence) THEN {OM_BOUNCE_SEQ} ELSE {})
    \cup (IF IsSome(self.bounce_sound) THEN {OM_BOUNCE_SOUND} ELSE {})
    \cup (IF IsSome(self.runtime) THEN {OM_RUNTIME} ELSE {})

\* unwrap_or
unwrap_or(o, d) == IF IsSome(o) THEN Get(o) ELSE d

\* lines 595-611: one bounce sequence name buffer
OM_w_seq_name(self, i) ==
    IF IsSome(self.bounce_sequence) /\ IsSome(Get(self.bounce_sequence)[i])
    THEN str_to_c_padded(Get(Get(self.bounce_sequence)[i]))
    ELSE Zeros(NAME_LEN)

\* lines 626-667: the struct handed to write_struct
OM_image(self) ==
    LET range_min == unwrap_or(self.translation_range_min, Vec4_EMPTY)
        range_max == unwrap_or(self.translation_range_max, Vec4_EMPTY)
        trans == unwrap_or(self.translation, <<Vec3_EMPTY, Vec3_EMPTY, Vec3_EMPTY>>)
        xyz == unwrap_or(self.xyz_rotation, <<Vec3_EMPTY, Vec3_EMPTY>>)
        scl == unwrap_or(self.scale, <<Vec3_EMPTY, Vec3_EMPTY>>)
        fwd == self.forward_rotation
    IN [flags |-> OM_w_flags(self),
        node_index |-> to_index(NodeTable, self.node),
        zero008 |-> "+0",
        gravity |-> IF IsSome(self.gravity) THEN Get(self.gravity).value ELSE "+0",
        zero016 |-> "+0",
        trans_range_min_1 |-> range_min[1],
        trans_range_max_1 |-> range_max[1],
        trans_range_min_2 |-> range_min[2],
        trans_range_max_2 |-> range_max[2],
        trans_range_min_3 |-> range_min[3],
        trans_range_max_3 |-> range_max[3],
        trans_range_min_4 |-> range_min[4],
        trans_range_max_4 |-> range_max[4],
        trans_delta |-> trans[1],
        trans_initial |-> trans[2],
        trans_delta_copy |-> Vec3_EMPTY,
        trans_initial_copy |-> Vec3_EMPTY,
        unk100 |-> trans[3],
        forward_rotation_1 |-> IF IsSome(fwd) THEN Get(fwd)[2] ELSE "+0",
        forward_rotation_2 |->
            IF IsSome(fwd) /\ Get(fwd)[1] = "Time" THEN Get(fwd)[3] ELSE "+0",
        zero120 |-> "+0",
        xyz_rotation |-> xyz[1],
        unk136 |-> xyz[2],
        xyz_rotation_copy |-> Vec3_EMPTY,
        scale |-> scl[1],
        unk172 |-> scl[2],
        scale_copy |-> Vec3_EMPTY,
        bounce_seq0_name |-> OM_w_seq_name(self, 1),
        bounce_seq0_sentinel |-> -1,
        bounce_snd0_index |->
            IF IsSome(self.bounce_sound)
            THEN to_index(SoundTable, Get(self.bounce_sound).name) ELSE 0,
        bounce_snd0_volume |->
            IF IsSome(self.bounce_sound) THEN Get(self.bounce_sound).volume ELSE "+0",
        bounce_seq1_name |-> OM_w_seq_name(self, 2),
        bounce_seq1_sentinel |-> -1,
        bounce_snd1_index |-> 0,
        bounce_snd1_volume |-> "+0",
        bounce_seq2_name |-> OM_w_seq_name(self, 3),
        bounce_seq2_sentinel |-> -1,
        bounce_snd2_index |-> 0,
        bounce_snd2_volume |-> "+0",
        runtime |-> unwrap_or(self.runtime, "+0")]

\* lines 533-669: the two name -> index lookups may fail, then one write_struct
ObjectMotion_write(self) ==
    IF ~InTable(NodeTable, self.node) THEN WErr
    ELSE IF IsSome(self.bounce_sound) /\ ~InTable(SoundTable, Get(self.bounce_sound).name)
    THEN WErr
    ELSE WOk(write_struct(ObjectMotionC, OM_image(self)))

-----------------------------------------------------------------------------
(* Object connector (object_connector.rs).                                 *)

ObjectConnectorC ==
    Struct(<< Fflags("flags"), Fu16("node_index"), Fu16("from_index"), Fu16("to_index"),
       Fu16("pad10"), Fvec3("from_pos"), Fvec3("to_pos"),
       Ff32("zero36"), Ff32("zero40"), Ff32("zero44"), Ff32("zero48"),
       Ff32("one52"), Ff32("one56"),
       Ff32("zero60"), Ff32("zero64"), Ff32("zero68"), Ff32("max_length") >>)

OC_SIZE == 76

\* ObjectConnectorFlags: bit positions
OC_FROM_NODE == 0
OC_FROM_INPUT_NODE == 1
OC_FROM_POS == 3
OC_FROM_INPUT_POS == 4
OC_TO_NODE == 5
OC_TO_INPUT_NODE == 6
OC_TO_POS == 8
OC_TO_INPUT_POS == 9
OC_MAX_LENGTH == 15

ObjectConnectorFlags ==
    {OC_FROM_NODE, OC_FROM_INPUT_NODE, OC_FROM_POS, OC_FROM_INPUT_POS, OC_TO_NODE,
     OC_TO_INPUT_NODE, OC_TO_POS, OC_TO_INPUT_POS, OC_MAX_LENGTH}

\* lines 70-83
OC_head_checks(c, prev) ==
    << Check("valid object connector flags", from_bits_ok(ObjectConnectorFlags, c.flags), prev + 0),
       Check("object connector field 10", c.pad10 = 0, prev + 10),
       Check("node index", HasIndex(NodeTable, c.node_index), prev + 4) >>

\* a variant read that takes the from endpoint from the first flag it finds
OC_from_node_checks_first(c, prev) ==
    IF OC_FROM_NODE \in c.flags
    THEN <<Check("node index", HasIndex(NodeTable, c.from_index), prev + 6)>>
    ELSE <<>>

\* lines 85-117
OC_from_node_checks(c, prev) ==
    LET from_input_node == OC_FROM_INPUT_NODE \in c.flags
        from_input_pos == OC_FROM_INPUT_POS \in c.flags
    IN IF OC_FROM_NODE \in c.flags
       THEN << Check("object connector from input node", from_input_node = FALSE, prev + 0),
               Check("object connector from input pos", from_input_pos = FALSE, prev + 0),
               Check("node index", HasIndex(NodeTable, c.from_index), prev + 6) >>
       ELSE IF from_input_node
       THEN <<Check("object connector from input pos", from_input_pos = FALSE, prev + 0)>>
       ELSE <<Check("object connector from input pos", from_input_pos = TRUE, prev + 0)>>

OC_from_node(c) ==
    IF OC_FROM_NODE \in c.flags THEN Some(from_index(NodeTable, c.from_index))
    ELSE IF OC_FROM_INPUT_NODE \in c.flags THEN Some(INPUT_NODE)
    ELSE None

\* lines 119-151
OC_to_node_checks(c, prev) ==
    LET to_input_node == OC_TO_INPUT_NODE \in c.flags
        to_input_pos == OC_TO_INPUT_POS \in c.flags
    IN IF OC_TO_NODE \in c.flags
       THEN << Check("object connector to input node", to_input_node = FALSE, prev + 0),
               Check("object connector to input pos", to_input_pos = FALSE, prev + 0),
               Check("node index", HasIndex(NodeTable, c.to_index), prev + 8) >>
       ELSE IF to_input_node
       THEN <<Check("object connector to input pos", to_input_pos = FALSE, prev + 0)>>
       ELSE <<Check("object connector to input pos", to_input_pos = TRUE, prev + 0)>>

OC_to_node(c) ==
    IF OC_TO_NODE \in c.flags THEN Some(from_index(NodeTable, c.to_index))
    ELSE IF OC_TO_INPUT_NODE \in c.flags THEN Some(INPUT_NODE)
    ELSE None

\* a variant read that takes a position whatever the input-pos bits say
OC_pos_checks_any_input(c, prev) ==
    (IF OC_FROM_POS \in c.flags THEN <<>>
     ELSE <<Check("object connector from pos", Vec3Eq(c.from_pos, Vec3_EMPTY), prev + 12)>>)
    \o (IF OC_TO_POS \in c.flags THEN <<>>
        ELSE <<Check("object connector to pos", Vec3Eq(c.to_pos, Vec3_EMPTY), prev + 24)>>)

\* lines 153-183
OC_pos_checks(c, prev) ==
    (IF OC_FROM_POS \in c.flags
     THEN <<Check("object connector from input pos", (OC_FROM_INPUT_POS \in c.flags) = FALSE, prev + 0)>>
     ELSE <<Check("object connector from pos", Vec3Eq(c.from_pos, Vec3_EMPTY), prev + 12)>>)
    \o (IF OC_TO_POS \in c.flags
        THEN <<Check("object connector from input pos", (OC_TO_INPUT_POS \in c.flags) = FALSE, prev + 0)>>
        ELSE <<Check("object connector to pos", Vec3Eq(c.to_pos, Vec3_EMPTY), prev + 24)>>)

OC_from_pos(c) == IF OC_FROM_POS \in c.flags THEN Some(c.from_pos) ELSE None
OC_to_pos(c) == IF OC_TO_POS \in c.flags THEN Some(c.to_pos) ELSE None

\* lines 185-229
OC_const_checks(c, prev) ==
    << Check("object connector field 36", FEq(c.zero36, "+0"), prev + 36),
       Check("object connector field 40", FEq(c.zero40, "+0"), prev + 40),
       Check("object connector field 44", FEq(c.zero44, "+0"), prev + 44),
       Check("object connector field 48", FEq(c.zero48, "+0"), prev + 48),
       Check("object connector field 52", FEq(c.one52, "1"), prev + 52),
       Check("object connector field 56", FEq(c.one56, "1"), prev + 56),
       Check("object connector field 60", FEq(c.zero60, "+0"), prev + 60),
       Check("object connector field 64", FEq(c.zero64, "+0"), prev + 64),
       Check("object connector field 68", FEq(c.zero68, "+0"), prev + 68) >>

\* lines 231-245
OC_max_length_checks(c, prev) ==
    IF OC_MAX_LENGTH \in c.flags
    THEN <<Check("object connector max length", FPos(c.max_length), prev + 72)>>
    ELSE <<Check("object connector max length", FEq(c.max_length, "+0"), prev + 72)>>

OC_max_length(c) == IF OC_MAX_LENGTH \in c.flags THEN Some(c.max_length) ELSE None

OC_checks(c, prev) ==
    OC_head_checks(c, prev) \o OC_from_node_checks(c, prev) \o OC_to_node_checks(c, prev)
    \o OC_pos_checks(c, prev) \o OC_const_checks(c, prev) \o OC_max_length_checks(c, prev)

OC_value(c) ==
    [node |-> from_index(NodeTable, c.node_index),
     from_node |-> OC_from_node(c),
     to_node |-> OC_to_node(c),
     from_pos |-> OC_from_pos(c),
     to_pos |-> OC_to_pos(c),
     max_length |-> OC_max_length(c)]

ObjectConnector_read(r0, c, size) ==
    ReadRecord("object connector size", OC_SIZE, ObjectConnectorC, OC_checks, OC_value, r0, c, size)

\* lines 261-272 and 274-285: the flag and the index of one endpoint
OC_w_endpoint_flag(node, NODE, INPUT, INPUT_POS) ==
    IF IsSome(node)
    THEN IF Get(node) = INPUT_NODE THEN {INPUT} ELSE {NODE}
    ELSE {INPUT_POS}

\* a variant write that leaves every endpoint index zero
OC_w_endpoint_index_zero(node) == 0

OC_w_endpoint_index(node) ==
    IF IsSome(node) /\ Get(node) # INPUT_NODE THEN to_index(NodeTable, Get(node)) ELSE 0

\* lines 259-295
OC_w_flags(self) ==
    OC_w_endpoint_flag(self.from_node, OC_FROM_NODE, OC_FROM_INPUT_NODE, OC_FROM_INPUT_POS)
    \cup OC_w_endpoint_flag(self.to_node, OC_TO_NODE, OC_TO_INPUT_NODE, OC_TO_INPUT_POS)
    \cup (IF IsSome(self.from_pos) THEN {OC_FROM_POS} ELSE {})
    \cup (IF IsSome(self.to_pos) THEN {OC_TO_POS} ELSE {})
    \cup (IF IsSome(self.max_length) THEN {OC_MAX_LENGTH} ELSE {})

\* lines 297-315
OC_image(self) ==
    [flags |-> OC_w_flags(self),
     node_index |-> to_index(NodeTable, self.node),
     from_index |-> OC_w_endpoint_index(self.from_node),
     to_index |-> OC_w_endpoint_index(self.to_node),
     pad10 |-> 0,
     from_pos |-> unwrap_or(self.from_pos, Vec3_EMPTY),
     to_pos |-> unwrap_or(self.to_pos, Vec3_EMPTY),
     zero36 |-> "+0", zero40 |-> "+0", zero44 |-> "+0", zero48 |-> "+0",
     one52 |-> "1", one56 |-> "1",
     zero60 |-> "+0", zero64 |-> "+0", zero68 |-> "+0",
     max_length |-> unwrap_or(self.max_length, "+0")]

OC_w_endpoint_ok(node) ==
    ~IsSome(node) \/ Get(node) = INPUT_NODE \/ InTable(NodeTable, Get(node))

ObjectConnector_write(self) ==
    IF ~InTable(NodeTable, self.node) \/ ~OC_w_endpoint_ok(self.from_node)
       \/ ~OC_w_endpoint_ok(self.to_node)
    THEN WErr
    ELSE WOk(write_struct(ObjectConnectorC, OC_image(self)))

-----------------------------------------------------------------------------
(* Object motion from-to (object_motion_from_to.rs).                       *)

ObjectMotionFromToC ==
    Struct(<< Fflags("flags"), Fu32("node_index"),
       Ff32("morph_from"), Ff32("morph_to"), Ff32("morph_delta"),
       Fvec3("translate_from"), Fvec3("translate_to"), Fvec3("translate_delta"),
       Fvec3("rotate_from"), Fvec3("rotate_to"), Fvec3("rotate_delta"),
       Fvec3("scale_from"), Fvec3("scale_to"), Fvec3("scale_delta"),
       Ff32("run_time") >>)

OMFT_SIZE == 132

\* ObjectMotionFromToFlags: bit positions
FT_TRANSLATE == 0
FT_ROTATE == 1
FT_SCALE == 2
FT_MORPH == 3

ObjectMotionFromToFlags == {FT_TRANSLATE, FT_ROTATE, FT_SCALE, FT_MORPH}

\* a variant read that reports a missing node at the flag word
FT_head_checks_at_flags(c, prev) ==
    << Check("valid object motion from flags", from_bits_ok(ObjectMotionFromToFlags, c.flags), prev + 0),
       Check("node index", HasIndex(NodeTable, c.node_index), prev + 0) >>

\* lines 79-86
FT_head_checks(c, prev) ==
    << Check("valid object motion from flags", from_bits_ok(ObjectMotionFromToFlags, c.flags), prev + 0),
       Check("node index", HasIndex(NodeTable, c.node_index), prev + 4) >>

\* lines 88-111
FT_morph_checks(c, prev) ==
    IF FT_MORPH \in c.flags THEN <<>>
    ELSE << Check("object motion morph from", FEq(c.morph_from, "+0"), prev + 8),
            Check("object motion morph to", FEq(c.morph_to, "+0"), prev + 12),
            Check("object motion morph delta", FEq(c.morph_delta, "+0"), prev + 16) >>

\* lines 113-186: one Vec3 from/to/delta triple
FT_vec_checks(c, prev, bit, what, from, to, delta, off) ==
    IF bit \in c.flags THEN <<>>
    ELSE << Check("object motion " \o what \o " from", Vec3Eq(c[from], Vec3_EMPTY), prev + off),
            Check("object motion " \o what \o " to", Vec3Eq(c[to], Vec3_EMPTY), prev + off + 12),
            Check("object motion " \o what \o " delta", Vec3Eq(c[delta], Vec3_EMPTY), prev + off + 24) >>

FT_triple(c, bit, from, to, delta) ==
    IF bit \in c.flags THEN Some([from |-> c[from], to |-> c[to], delta |-> c[delta]])
    ELSE None

\* a variant read that does not test the run time
FT_runtime_checks_unchecked(c, prev) == <<>>

\* lines 188-192
FT_runtime_checks(c, prev) ==
    <<Check("object motion from to runtime", FPos(c.run_time), prev + 128)>>

FT_checks(c, prev) ==
    FT_head_checks(c, prev) \o FT_morph_checks(c, prev)
    \o FT_vec_checks(c, prev, FT_TRANSLATE, "translate",
                     "translate_from", "translate_to", "translate_delta", 20)
    \o FT_vec_checks(c, prev, FT_ROTATE, "rotate",
                     "rotate_from", "rotate_to", "rotate_delta", 56)
    \o FT_vec_checks(c, prev, FT_SCALE, "scale",
                     "scale_from", "scale_to", "scale_delta", 92)
    \o FT_runtime_checks(c, prev)

FT_value(c) ==
    [node |-> from_index(NodeTable, c.node_index),
     run_time |-> c.run_time,
     morph |-> FT_triple(c, FT_MORPH, "morph_from", "morph_to", "morph_delta"),
     translate |-> FT_triple(c, FT_TRANSLATE, "translate_from", "translate_to", "translate_delta"),
     rotate |-> FT_triple(c, FT_ROTATE, "rotate_from", "rotate_to", "rotate_delta"),
     scale |-> FT_triple(c, FT_SCALE, "scale_from", "scale_to", "scale_delta")]

ObjectMotionFromTo_read(r0, c, size) ==
    ReadRecord("object motion from to size", OMFT_SIZE, ObjectMotionFromToC,
               FT_checks, FT_value, r0, c, size)

\* lines 205-217
FT_w_flags(self) ==
    (IF IsSome(self.translate) THEN {FT_TRANSLATE} ELSE {})
    \cup (IF IsSome(self.rotate) THEN {FT_ROTATE} ELSE {})
    \cup (IF IsSome(self.scale) THEN {FT_SCALE} ELSE {})
    \cup (IF IsSome(self.morph) THEN {FT_MORPH} ELSE {})

FT_zero3 == [from |-> Vec3_EMPTY, to |-> Vec3_EMPTY, delta |-> Vec3_EMPTY]

\* lines 221-262
FT_image(self) ==
    LET m == unwrap_or(self.morph, [from |-> "+0", to |-> "+0", delta |-> "+0"])
        t == unwrap_or(self.translate, FT_zero3)
        r == unwrap_or(self.rotate, FT_zero3)
        sc == unwrap_or(self.scale, FT_zero3)
    IN [flags |-> FT_w_flags(self),
        node_index |-> to_index(NodeTable, self.node),
        morph_from |-> m.from, morph_to |-> m.to, morph_delta |-> m.delta,
        translate_from |-> t.from, translate_to |-> t.to,
        translate_delta |-> t.delta,
        rotate_from |-> r.from, rotate_to |-> r.to, rotate_delta |-> r.delta,
        scale_from |-> sc.from, scale_to |-> sc.to, scale_delta |-> sc.delta,
        run_time |-> self.run_time]

ObjectMotionFromTo_write(self) ==
    IF ~InTable(NodeTable, self.node) THEN WErr
    ELSE WOk(write_struct(ObjectMotionFromToC, FT_image(self)))

-----------------------------------------------------------------------------
(* Light animation (light_animation.rs).                                   *)

LightAnimationC ==
    Struct(<< Fname("name"), Fu32("light_index"), Fvec2("range"),
       Fu32("zero44"), Fu32("zero48"), Fu32("zero52"), Fu32("zero56"),
       Fvec3("color"),
       Ff32("zero72"), Ff32("zero76"), Ff32("zero80"),
       Ff32("zero84"), Ff32("zero88"), Ff32("zero92"),
       Ff32("runtime") >>)

LA_SIZE == 100

\* lines 48-58: the literal name, the light index, and their agreement
LA_name_checks(c, prev) ==
    << Check("light anim name", str_from_c_padded_ok(c.name), prev + 0),
       Check("light index", HasIndex(LightTable, c.light_index), prev + 32) >>
    \o (IF HasIndex(LightTable, c.light_index)
        THEN <<Check("light anim name",
                     str_from_c_padded(c.name) = from_index(LightTable, c.light_index),
                     prev + 32)>>
        ELSE <<>>)

\* lines 60-74
LA_range_checks(c, prev) ==
    LET range_near == c.range[1]
        range_far == c.range[2]
    IN IF FGe(range_near, "+0")
       THEN <<Check("light anim range far", FGe(range_far, range_near), prev + 40)>>
       ELSE <<Check("light anim range far", FLe(range_far, range_near), prev + 40)>>

\* -5.0 <= x <= 5.0 on f32
InColorRange(x) == x # "nan" /\ -10 <= FNum(x) /\ FNum(x) <= 10

\* lines 76-139
LA_rest_checks(c, prev) ==
    << Check("light anim field 44", c.zero44 = 0, prev + 44),
       Check("light anim field 48", c.zero48 = 0, prev + 48),
       Check("light anim field 52", c.zero52 = 0, prev + 52),
       Check("light anim field 56", c.zero56 = 0, prev + 56),
       Check("light anim color red", InColorRange(c.color[1]), prev + 60),
       Check("light anim color green", InColorRange(c.color[2]), prev + 64),
       Check("light anim color blue", InColorRange(c.color[3]), prev + 68),
       Check("light anim field 72", FEq(c.zero72, "+0"), prev + 72),
       Check("light anim field 76", FEq(c.zero76, "+0"), prev + 76),
       Check("light anim field 80", FEq(c.zero80, "+0"), prev + 80),
       Check("light anim field 84", FEq(c.zero84, "+0"), prev + 84),
       Check("light anim field 88", FEq(c.zero88, "+0"), prev + 88),
       Check("light anim field 92", FEq(c.zero92, "+0"), prev + 92),
       Check("light anim runtime", FPos(c.runtime), prev + 96) >>

LA_checks(c, prev) ==
    LA_name_checks(c, prev) \o LA_range_checks(c, prev) \o LA_rest_checks(c, prev)

LA_value(c) ==
    [name |-> str_from_c_padded(c.name),
     range |-> c.range,
     color |-> c.color,
     runtime |-> c.runtime]

LightAnimation_read(r0, c, size) ==
    ReadRecord("light animation size", LA_SIZE, LightAnimationC, LA_checks, LA_value, r0, c, size)

\* a variant write that always indexes the first light
LA_w_light_index_first(self) == 1

\* lines 150-152: the literal name and the light index, both from self.name
LA_w_name(self) == str_to_c_padded(self.name)
LA_w_light_index(self) == to_index(LightTable, self.name)

\* lines 154-170
LA_image(self) ==
    [name |-> LA_w_name(self),
     light_index |-> LA_w_light_index(self),
     range |-> self.range,
     zero44 |-> 0, zero48 |-> 0, zero52 |-> 0, zero56 |-> 0,
     color |-> self.color,
     zero72 |-> "+0", zero76 |-> "+0", zero80 |-> "+0",
     zero84 |-> "+0", zero88 |-> "+0", zero92 |-> "+0",
     runtime |-> self.runtime]

LightAnimation_write(self) ==
    IF ~InTable(LightTable, self.name) THEN WErr
    ELSE WOk(write_struct(LightAnimationC, LA_image(self)))

-----------------------------------------------------------------------------
(* Call object connector (call_object_connector.rs).                       *)

CallObjectConnectorC ==
    Struct(<< Fflags("flags"), Fname("node"), Fu16("node_index"), Fi16("save_index"),
       Fu16("from_index"), Fu16("to_index"), Fvec3("from_pos"), Fvec3("to_pos") >>)

COC_SIZE == 68

\* FLAGS = 1024 | 512 | 2, as bit positions
COC_FLAGS == {10, 9, 1}

\* a variant read that accepts any flag word
COC_checks_any_flags(c, prev) ==
    << Check("call object connector node name", str_from_c_padded_ok(c.node), prev + 4),
       Check("call object connector node index", c.node_index = 0, prev + 36),
       Check("call object connector save index", c.save_index = -1, prev + 38),
       Check("node index", HasIndex(NodeTable, c.from_index), prev + 40),
       Check("call object connector to index", c.to_index = 0, prev + 42),
       Check("call object connector from pos", Vec3Eq(c.from_pos, Vec3_EMPTY), prev + 44) >>

\* lines 51-86
COC_checks(c, prev) ==
    << Check("call object connector flags", c.flags = COC_FLAGS, prev + 0),
       Check("call object connector node name", str_from_c_padded_ok(c.node), prev + 4),
       Check("call object connector node index", c.node_index = 0, prev + 36),
       Check("call object connector save index", c.save_index = -1, prev + 38),
       Check("node index", HasIndex(NodeTable, c.from_index), prev + 40),
       Check("call object connector to index", c.to_index = 0, prev + 42),
       Check("call object connector from pos", Vec3Eq(c.from_pos, Vec3_EMPTY), prev + 44) >>

\* lines 88-93
COC_value(c) ==
    [node |-> str_from_c_padded(c.node),
     from_node |-> from_index(NodeTable, c.from_index),
     to_node |-> INPUT_NODE,
     to_pos |-> c.to_pos]

CallObjectConnector_read(r0, c, size) ==
    ReadRecord("call object connector size", COC_SIZE, CallObjectConnectorC,
               COC_checks, COC_value, r0, c, size)

\* lines 97-109
COC_image(self) ==
    [flags |-> COC_FLAGS,
     node |-> str_to_c_padded(self.node),
     node_index |-> 0,
     save_index |-> -1,
     from_index |-> to_index(NodeTable, self.from_node),
     to_index |-> 0,
     from_pos |-> Vec3_EMPTY,
     to_pos |-> self.to_pos]

CallObjectConnector_write(self) ==
    IF ~InTable(NodeTable, self.from_node) THEN WErr
    ELSE WOk(write_struct(CallObjectConnectorC, COC_image(self)))

-----------------------------------------------------------------------------
(* Activation prerequisites (activation_prereq.rs).  A prerequisite is two *)
(* u32 words and a 40-byte body, which is overlaid by ActivPrereqAnimC or  *)
(* by ActivPrereqObjC: the body is kept as its bytes.                      *)

ActivPrereqAnimC ==
    Struct(<<Fname("name"), Fu32("zero32"), Fu32("zero36")>>)
ActivPrereqObjC ==
    Struct(<<Fu32("active"), Fname("name"), Fu32("pointer")>>)

AP_BODY_SIZE == 40

\* ActivPrereqType
AP_Animation == 1
AP_Object == 2
AP_Parent == 3

\* u32::from_le_bytes of the four bytes at byte offset off (0-based)
le_u32(b, off) ==
    b[off + 1] + 256 * b[off + 2] + 65536 * b[off + 3] + 16777216 * b[off + 4]
\* u32::to_le_bytes
to_le_u32(v) ==
    <<v % 256, (v \div 256) % 256, (v \div 65536) % 256, (v \div 16777216) % 256>>

\* lines 34-50
read_activ_prereq_anim(r2, body) ==
    LET r3 == read_exact(r2, size_of(ActivPrereqAnimC))
        name == SubSeq(body, 1, 32)
        cs == << Check("anim def activ prereq a name", str_from_c_padded_ok(name), r3.prev + 0),
                 Check("anim def activ prereq a field 32", le_u32(body, 32) = 0, r3.prev + 32),
                 Check("anim def activ prereq a field 36", le_u32(body, 36) = 0, r3.prev + 36) >>
    IN IF Failing(cs) = {}
       THEN Ok([tag |-> "Animation", name |-> str_from_c_padded(name)], r3)
       ELSE Err(cs[FirstFail(cs)], r3)

\* lines 52-76
read_activ_prereq_parent(r2, body, required) ==
    LET r3 == read_exact(r2, size_of(ActivPrereqObjC))
        name == SubSeq(body, 5, 36)
        cs == << Check("anim def activ prereq p active", le_u32(body, 0) = 0, r3.prev + 0),
                 Check("anim def activ prereq p name", str_from_c_padded_ok(name), r3.prev + 4),
                 Check("anim def activ prereq p pointer", le_u32(body, 36) # 0, r3.prev + 36) >>
    IN IF Failing(cs) = {}
       THEN Ok([tag |-> "Parent", name |-> str_from_c_padded(name), required |-> required,
                active |-> FALSE, pointer |-> le_u32(body, 36)], r3)
       ELSE Err(cs[FirstFail(cs)], r3)

\* a variant read that takes every non-zero active word as true
read_activ_prereq_object_truthy(r2, body, required) ==
    LET r3 == read_exact(r2, size_of(ActivPrereqObjC))
        name == SubSeq(body, 5, 36)
        cs == << Check("anim def activ prereq o name", str_from_c_padded_ok(name), r3.prev + 4),
                 Check("anim def activ prereq o pointer", le_u32(body, 36) # 0, r3.prev + 36) >>
    IN IF Failing(cs) = {}
       THEN Ok([tag |-> "Object", name |-> str_from_c_padded(name), required |-> required,
                active |-> le_u32(body, 0) # 0, pointer |-> le_u32(body, 36)], r3)
       ELSE Err(cs[FirstFail(cs)], r3)

\* lines 78-98
read_activ_prereq_object(r2, body, required) ==
    LET r3 == read_exact(r2, size_of(ActivPrereqObjC))
        name == SubSeq(body, 5, 36)
        cs == << Check("anim def activ prereq o active", IsBoolC(le_u32(body, 0)), r3.prev + 0),
                 Check("anim def activ prereq o name", str_from_c_padded_ok(name), r3.prev + 4),
                 Check("anim def activ prereq o pointer", le_u32(body, 36) # 0, r3.prev + 36) >>
    IN IF Failing(cs) = {}
       THEN Ok([tag |-> "Object", name |-> str_from_c_padded(name), required |-> required,
                active |-> le_u32(body, 0) = 1, pointer |-> le_u32(body, 36)], r3)
       ELSE Err(cs[FirstFail(cs)], r3)

\* a variant read that takes every unknown type word as Object
read_activ_prereq_default(r0, c) ==
    LET r1 == read_exact(r0, 4)
        bk == Check("anim def activ prereq optional", IsBoolC(c.optional), r1.prev)
        required == ~(c.optional = 1)
        r2 == read_exact(r1, 4)
        rq == Check("anim def activ prereq required", required = TRUE, r2.prev - 4)
    IN IF ~bk.pass THEN Err(bk, r1)
       ELSE IF c.ptype = AP_Animation
       THEN IF ~rq.pass THEN Err(rq, r2) ELSE read_activ_prereq_anim(r2, c.body)
       ELSE IF c.ptype = AP_Parent THEN read_activ_prereq_parent(r2, c.body, required)
       ELSE read_activ_prereq_object(r2, c.body, required)

\* lines 100-123
read_activ_prereq(r0, c) ==
    LET r1 == read_exact(r0, 4)
        optional == c.optional
        bk == Check("anim def activ prereq optional", IsBoolC(optional), r1.prev)
        required == ~(optional = 1)
        r2 == read_exact(r1, 4)
        prereq_type_raw == c.ptype
        rq == Check("anim def activ prereq required", required = TRUE, r2.prev - 4)
    IN IF ~bk.pass THEN Err(bk, r1)
       ELSE IF prereq_type_raw = AP_Animation
       THEN IF ~rq.pass THEN Err(rq, r2) ELSE read_activ_prereq_anim(r2, c.body)
       ELSE IF prereq_type_raw = AP_Parent THEN read_activ_prereq_parent(r2, c.body, required)
       ELSE IF prereq_type_raw = AP_Object THEN read_activ_prereq_object(r2, c.body, required)
       ELSE [ok |-> FALSE, val |-> NoVal, label |-> "valid activ prereq type",
             off |-> r2.prev, rd |-> r2, was |-> prereq_type_raw]

\* a variant write that marks the Animation prerequisite optional
write_activ_prereq_anim_optional(name) ==
    WOk(write_u32(bool_c(TRUE))
        \o write_u32(1)
        \o write_struct(ActivPrereqAnimC, str_to_c_padded(name) \o to_le_u32(0) \o to_le_u32(0)))

\* lines 132-144
write_activ_prereq_anim(name) ==
    LET fill == str_to_c_padded(name)
    IN WOk(write_u32(bool_c(FALSE))
           \o write_u32(AP_Animation)
           \o write_struct(ActivPrereqAnimC, fill \o to_le_u32(0) \o to_le_u32(0)))

\* a variant write whose boolean word is the required flag itself
write_activ_prereq_object_plain(object, prereq_type) ==
    LET name == str_to_c_padded(object.name)
    IN WOk(write_u32(bool_c(object.required))
           \o write_u32(prereq_type)
           \o write_struct(ActivPrereqObjC,
                           to_le_u32(bool_c(object.active)) \o name \o to_le_u32(object.pointer)))

\* lines 146-161
write_activ_prereq_object(object, prereq_type) ==
    LET name == str_to_c_padded(object.name)
    IN WOk(write_u32(bool_c(~object.required))
           \o write_u32(prereq_type)
           \o write_struct(ActivPrereqObjC,
                           to_le_u32(bool_c(object.active)) \o name \o to_le_u32(object.pointer)))

\* lines 163-179: the dispatch for one prerequisite
write_activ_prereq(activ_prereq) ==
    IF activ_prereq.tag = "Animation" THEN write_activ_prereq_anim(activ_prereq.name)
    ELSE IF activ_prereq.tag = "Object" THEN write_activ_prereq_object(activ_prereq, AP_Object)
    ELSE write_activ_prereq_object(activ_prereq, AP_Parent)

\* the stream ends where a prerequisite should begin: the I/O error of
\* read_u32, with the reader as it was
PrereqIoError(r) == [ok |-> FALSE, val |-> NoVal, label |-> "io", off |-> 0, rd |-> r]

\* a variant list read that goes on after a failure and reports the first one
RECURSIVE read_activ_prereqs_all(_, _, _, _)
read_activ_prereqs_all(read, recs, i, count) ==
    IF i > count THEN Ok(<<>>, read)
    ELSE IF i > Len(recs) THEN PrereqIoError(read)
    ELSE LET a == read_activ_prereq(read, recs[i])
             rest == read_activ_prereqs_all([offset |-> read.offset + 8 + AP_BODY_SIZE,
                                             prev |-> read.offset + 8], recs, i + 1, count)
         IN IF ~a.ok THEN [a EXCEPT !.rd = rest.rd]
            ELSE IF ~rest.ok THEN rest
            ELSE Ok(<<a.val>> \o rest.val, rest.rd)

\* lines 125-130: (0..count).map(read_activ_prereq).collect() into a Result:
\* the prerequisites from the i-th on, stopping at the first error
RECURSIVE read_activ_prereqs(_, _, _, _)
read_activ_prereqs(read, recs, i, count) ==
    IF i > count THEN Ok(<<>>, read)
    ELSE IF i > Len(recs) THEN PrereqIoError(read)
    ELSE LET a == read_activ_prereq(read, recs[i])
             rest == read_activ_prereqs(a.rd, recs, i + 1, count)
         IN IF ~a.ok THEN a
            ELSE IF ~rest.ok THEN rest
            ELSE Ok(<<a.val>> \o rest.val, rest.rd)

\* lines 163-179: one write after the other into the same sink
write_activ_prereqs(activ_prereqs) ==
    LET RECURSIVE Emit(_)
        Emit(i) == IF i > Len(activ_prereqs) THEN <<>>
                   ELSE write_activ_prereq(activ_prereqs[i]).sink \o Emit(i + 1)
    IN WOk(Emit(1))

\* the prerequisites a sink holds: two words and a body each
PrereqsOf(s) ==
    [i \in 1..(Len(s) \div 3) |->
        [optional |-> s[3 * i - 2].img, ptype |-> s[3 * i - 1].img, body |-> s[3 * i].img]]

-----------------------------------------------------------------------------
(* The CountingReader over a byte stream (io_ext/mod.rs).                  *)

\* the inner Read: len bytes, of which pos have been consumed.  What a
\* read_exact that meets the end of the stream has consumed is unspecified:
\* a greedy stream has consumed all that was left, another one nothing.
Stream(len, greedy) == [len |-> len, pos |-> 0, greedy |-> greedy]

\* std::io::Read::read_exact for a buffer of n bytes
inner_read_exact(inner, n) ==
    IF inner.len - inner.pos >= n
    THEN [ok |-> TRUE, inner |-> [inner EXCEPT !.pos = @ + n]]
    ELSE [ok |-> FALSE,
          inner |-> [inner EXCEPT !.pos = IF inner.greedy THEN inner.len ELSE @]]

\* lines 14-20
CountingReader_new(inner) == [inner |-> inner, offset |-> 0, prev |-> 0]

\* what a call on a reader returns: Ok, an I/O error of the stream, or an
\* assertion error with its label and offset; self is the reader afterwards
Returned(self, val) == [ret |-> "Ok", label |-> "", off |-> 0, self |-> self, val |-> val]
IoError(self) == [ret |-> "io", label |-> "", off |-> 0, self |-> self, val |-> NoVal]
AssertionError(c, self) ==
    [ret |-> "assert", label |-> c.label, off |-> c.off, self |-> self, val |-> NoVal]

\* a variant reader that counts the bytes before it asks the stream for them
CountingReader_read_exact_eager(self, n) ==
    LET o == inner_read_exact(self.inner, n)
        r == read_exact(self, n)
        counted == [inner |-> o.inner, offset |-> r.offset, prev |-> r.prev]
    IN IF ~o.ok THEN IoError(counted) ELSE Returned(counted, NoVal)

\* lines 34-41, with the stream under the reader
CountingReader_read_exact(self, n) ==
    LET o == inner_read_exact(self.inner, n)
        r == read_exact(self, n)
    IN IF ~o.ok THEN IoError([self EXCEPT !.inner = o.inner])
       ELSE Returned([inner |-> o.inner, offset |-> r.offset, prev |-> r.prev], NoVal)

\* lines 43-72: the buffer length of each scalar read
ScalarLen ==
    [read_u32 |-> 4, read_i32 |-> 4, read_f32 |-> 4, read_u16 |-> 2, read_i16 |-> 2]
read_scalar(self, name) == CountingReader_read_exact(self, ScalarLen[name])

\* lines 74-87
read_struct(self, S) == CountingReader_read_exact(self, size_of(S))

\* a variant assert_end that does not look at the stream
assert_end_unchecked(self) == Returned(self, NoVal)

\* lines 89-97: one read of a 1-byte buffer; 0 bytes read is the end
assert_end(self) ==
    IF self.inner.pos < self.inner.len
    THEN AssertionError(Check("all data to be read", FALSE, self.offset),
                        [self EXCEPT !.inner.pos = @ + 1])
    ELSE Returned(self, NoVal)

-----------------------------------------------------------------------------
(* The gamez file (gamez/mod.rs, gamez/textures.rs).  The materials, the   *)
(* meshes and the nodes sections are kept as their byte size and whether   *)
(* their own reader accepts them.                                          *)

Fi32(n) == [name |-> n, ty |-> "i32", size |-> 4, align |-> 4]
Fbytes(n, len) == [name |-> n, ty |-> "bytes", size |-> len, align |-> 1]

HeaderC ==
    Struct(<< Fu32("signature"), Fu32("version"), Fu32("texture_count"),
              Fu32("textures_offset"), Fu32("materials_offset"), Fu32("meshes_offset"),
              Fu32("node_array_size"), Fu32("node_count"), Fu32("nodes_offset") >>)

\* 0x02971222
SIGNATURE == 43455010
VERSION_MW == 27
\* the bound of the texture count
TEXTURE_LIMIT == 4096

TEX_LEN == 20

TextureInfoC ==
    Struct(<< Fu32("zero00"), Fu32("zero04"), Fbytes("texture", TEX_LEN),
              Fu32("used"), Fu32("index"), Fi32("unk36") >>)

\* str_to_c_suffix and str_from_c_suffix on the 20-byte texture name field
str_to_c_suffix(s) == [i \in 1..TEX_LEN |-> IF i <= Len(s) THEN s[i] ELSE 0]
str_from_c_suffix(buf) == CPrefix(buf)

\* textures.rs lines 28-39
texture_info_checks(info, prev) ==
    << Check("field 00", info.zero00 = 0, prev + 0),
       Check("field 04", info.zero04 = 0, prev + 4),
       Check("texture", IsUtf8(CPrefix(info.texture)), prev + 8),
       Check("used", info.used = 2, prev + 28),
       Check("index", info.index = 0, prev + 32),
       Check("field 36", info.unk36 = -1, prev + 36) >>

\* textures.rs lines 19-43: the infos from the i-th on, stopping at the first error
RECURSIVE read_texture_infos(_, _, _, _)
read_texture_infos(read, infos, i, count) ==
    IF i > count THEN Returned(read, <<>>)
    ELSE LET a == read_struct(read, TextureInfoC)
             cs == texture_info_checks(infos[i], a.self.prev)
             rest == read_texture_infos(a.self, infos, i + 1, count)
         IN IF a.ret # "Ok" THEN a
            ELSE IF Failing(cs) # {} THEN AssertionError(cs[FirstFail(cs)], a.self)
            ELSE IF rest.ret # "Ok" THEN rest
            ELSE Returned(rest.self, <<str_from_c_suffix(infos[i].texture)>> \o rest.val)

\* textures.rs lines 45-62
write_texture_infos(textures) ==
    [i \in 1..Len(textures) |->
        [size |-> size_of(TextureInfoC),
         img |-> [zero00 |-> 0, zero04 |-> 0, texture |-> str_to_c_suffix(textures[i]),
                  used |-> 2, index |-> 0, unk36 |-> -1]]]

\* a variant size that counts one texture info whatever the count
size_texture_infos_single(count) == size_of(TextureInfoC)

\* textures.rs lines 64-66
size_texture_infos(count) == size_of(TextureInfoC) * count

\* materials::read_materials, meshes::read_meshes, nodes::read_nodes: the
\* section's bytes are consumed, and its own assertions pass or fail
read_section(read, sec) ==
    LET a == CountingReader_read_exact(read, sec.size)
    IN IF a.ret # "Ok" THEN a
       ELSE IF ~sec.ok THEN AssertionError(Check("section", FALSE, a.self.prev), a.self)
       ELSE a

\* gamez/mod.rs lines 59-62 and 64-68: the header assertions
header_checks(header, read) ==
    << Check("signature", header.signature = SIGNATURE, 0),
       Check("version", header.version = VERSION_MW, 4),
       Check("texture count", header.texture_count < TEXTURE_LIMIT, 8),
       Check("node count", header.node_count < header.node_array_size, 28),
       Check("textures offset", read.offset = header.textures_offset, read.offset) >>

\* gamez/mod.rs lines 55-105
read_gamez(read, file) ==
    LET header == file.header
        h == read_struct(read, HeaderC)
        hc == header_checks(header, h.self)
        t == read_texture_infos(h.self, file.textures, 1, header.texture_count)
        mo == Check("materials offset", t.self.offset = header.materials_offset, t.self.offset)
        m == read_section(t.self, file.materials)
        so == Check("meshes offset", m.self.offset = header.meshes_offset, m.self.offset)
        s == read_section(m.self, file.meshes)
        no == Check("nodes offset", s.self.offset = header.nodes_offset, s.self.offset)
        n == read_section(s.self, file.nodes)
        e == assert_end(n.self)
    IN IF h.ret # "Ok" THEN h
       ELSE IF Failing(hc) # {} THEN AssertionError(hc[FirstFail(hc)], h.self)
       ELSE IF t.ret # "Ok" THEN t
       ELSE IF ~mo.pass THEN AssertionError(mo, t.self)
       ELSE IF m.ret # "Ok" THEN m
       ELSE IF ~so.pass THEN AssertionError(so, m.self)
       ELSE IF s.ret # "Ok" THEN s
       ELSE IF ~no.pass THEN AssertionError(no, s.self)
       ELSE IF n.ret # "Ok" THEN n
       ELSE IF e.ret # "Ok" THEN e
       ELSE Returned(e.self,
                     [textures |-> t.val,
                      materials |-> [size |-> file.materials.size],
                      meshes |-> [size |-> file.meshes.size],
                      nodes |-> [size |-> file.nodes.size],
                      metadata |-> [node_array_size |-> header.node_array_size,
                                    node_data_count |-> header.node_count]])

\* gamez/mod.rs lines 107-150: the header, then the four sections
write_gamez(gz) ==
    LET texture_count == Len(gz.textures)
        textures_offset == size_of(HeaderC)
        materials_offset == textures_offset + size_texture_infos(texture_count)
        meshes_offset == materials_offset + gz.materials.size
        nodes_offset == meshes_offset + gz.meshes.size
    IN write_struct(HeaderC,
                    [signature |-> SIGNATURE, version |-> VERSION_MW,
                     texture_count |-> texture_count,
                     textures_offset |-> textures_offset,
                     materials_offset |-> materials_offset,
                     meshes_offset |-> meshes_offset,
                     node_array_size |-> gz.metadata.node_array_size,
                     node_count |-> gz.metadata.node_data_count,
                     nodes_offset |-> nodes_offset])
       \o write_texture_infos(gz.textures)
       \o <<[size |-> gz.materials.size, img |-> "materials"],
            [size |-> gz.meshes.size, img |-> "meshes"],
            [size |-> gz.nodes.size, img |-> "nodes"]>>

\* the file a reader finds in the bytes write_gamez emitted
FileOf(s) ==
    LET tc == Len(s) - 4
    IN [header |-> s[1].img,
        textures |-> [i \in 1..tc |-> s[1 + i].img],
        materials |-> [size |-> s[tc + 2].size, ok |-> TRUE],
        meshes |-> [size |-> s[tc + 3].size, ok |-> TRUE],
        nodes |-> [size |-> s[tc + 4].size, ok |-> TRUE],
        len |-> SinkBytes(s)]

-----------------------------------------------------------------------------
(* Dispatch over the record types.                                         *)

Kinds == {"OM", "OC", "FT", "LA", "OOS", "COC", "AP"}

SizeOfKind(k) ==
    CASE k = "OM" -> OM_SIZE
      [] k = "OC" -> OC_SIZE
      [] k = "FT" -> OMFT_SIZE
      [] k = "LA" -> LA_SIZE
      [] k = "OOS" -> OOS_SIZE
      [] k = "COC" -> COC_SIZE
      [] k = "AP" -> 8 + AP_BODY_SIZE

LayoutOfKind(k) ==
    CASE k = "OM" -> ObjectMotionC
      [] k = "OC" -> ObjectConnectorC
      [] k = "FT" -> ObjectMotionFromToC
      [] k = "LA" -> LightAnimationC
      [] k = "OOS" -> ObjectOpacityStateC
      [] k = "COC" -> CallObjectConnectorC

Write(k, v) ==
    CASE k = "OM" -> ObjectMotion_write(v)
      [] k = "OC" -> ObjectConnector_write(v)
      [] k = "FT" -> ObjectMotionFromTo_write(v)
      [] k = "LA" -> LightAnimation_write(v)
      [] k = "OOS" -> ObjectOpacityState_write(v)
      [] k = "COC" -> CallObjectConnector_write(v)
      [] k = "AP" -> write_activ_prereq(v)

Read(k, r0, c, size) ==
    CASE k = "OM" -> ObjectMotion_read(r0, c, size)
      [] k = "OC" -> ObjectConnector_read(r0, c, size)
      [] k = "FT" -> ObjectMotionFromTo_read(r0, c, size)
      [] k = "LA" -> LightAnimation_read(r0, c, size)
      [] k = "OOS" -> ObjectOpacityState_read(r0, c, size)
      [] k = "COC" -> CallObjectConnector_read(r0, c, size)
      [] k = "AP" -> read_activ_prereq(r0, c)

\* the record a reader finds in the bytes a write emitted
ImageOf(k, s) ==
    IF k = "AP" THEN [optional |-> s[1].img, ptype |-> s[2].img, body |-> s[3].img]
    ELSE s[1].img

-----------------------------------------------------------------------------
(* The values and the records the model runs the codecs on.                *)

NameA == <<97>>
NameB == <<98, 99>>
\* a name of no table
NameX == <<120>>

V3a == <<"1", "0.5", "-1">>
V3b == <<"0.5", "+0", "1">>
V4a == <<"1", "-1", "0.5", "+0">>

OM_none ==
    [node |-> NodeTable[1], impact_force |-> FALSE, gravity |-> None,
     translation_range_min |-> None, translation_range_max |-> None,
     translation |-> None, forward_rotation |-> None, xyz_rotation |-> None,
     scale |-> None, bounce_sequence |-> None, bounce_sound |-> None, runtime |-> None]

OM_all ==
    [node |-> NodeTable[2], impact_force |-> TRUE,
     gravity |-> Some([mode |-> "Complex", value |-> "1"]),
     translation_range_min |-> Some(V4a), translation_range_max |-> Some(V4a),
     translation |-> Some(<<V3a, V3b, V3a>>),
     forward_rotation |-> Some(<<"Time", "1", "0.5">>),
     xyz_rotation |-> Some(<<V3a, V3b>>), scale |-> Some(<<V3b, V3a>>),
     bounce_sequence |-> Some(<<Some(NameA), Some(NameB), None>>),
     bounce_sound |-> Some([name |-> SoundTable[1], volume |-> "0.5"]),
     runtime |-> Some("1")]

OptName == {None, Some(NameA)}

OM_Edits(v) ==
    {[v EXCEPT !.node = x] : x \in {NodeTable[1], NodeTable[NumNodes], NameX}}
    \cup {[v EXCEPT !.impact_force = x] : x \in BOOLEAN}
    \cup {[v EXCEPT !.gravity = x] :
            x \in {None} \cup {Some([mode |-> m, value |-> f]) :
                                 m \in {"Local", "Complex", "NoAltitude"}, f \in {"1", "+0"}}}
    \cup {[v EXCEPT !.translation_range_min = x] : x \in {None, Some(V4a), Some(Vec4_EMPTY)}}
    \cup {[v EXCEPT !.translation_range_max = x] : x \in {None, Some(V4a), Some(Vec4_EMPTY)}}
    \cup {[v EXCEPT !.translation = x] : x \in {None, Some(<<V3a, V3b, V3b>>)}}
    \cup {[v EXCEPT !.forward_rotation = x] :
            x \in {None, Some(<<"Time", "1", "0.5">>), Some(<<"Time", "+0", "+0">>),
                   Some(<<"Distance", "1">>), Some(<<"Distance", "-0">>)}}
    \cup {[v EXCEPT !.xyz_rotation = x] : x \in {None, Some(<<V3b, V3a>>)}}
    \cup {[v EXCEPT !.scale = x] : x \in {None, Some(<<V3a, Vec3_EMPTY>>)}}
    \cup {[v EXCEPT !.bounce_sequence = x] :
            x \in {None, Some(<<Some(<<>>), None, None>>)}
                  \cup {Some(<<a, b, c>>) : a \in OptName, b \in OptName, c \in OptName}}
    \cup {[v EXCEPT !.bounce_sound = x] :
            x \in {None} \cup {Some([name |-> n, volume |-> f]) :
                                 n \in {SoundTable[NumSounds], NameX}, f \in {"1", "+0", "-1"}}}
    \cup {[v EXCEPT !.runtime = x] : x \in {None, Some("1"), Some("+0"), Some("-1"), Some("nan")}}

OC_none ==
    [node |-> NodeTable[1], from_node |-> None, to_node |-> None,
     from_pos |-> None, to_pos |-> None, max_length |-> None]

OC_all ==
    [node |-> NodeTable[2], from_node |-> Some(NodeTable[1]), to_node |-> Some(NodeTable[2]),
     from_pos |-> Some(V3a), to_pos |-> Some(V3b), max_length |-> Some("1")]

OC_input ==
    [node |-> NodeTable[1], from_node |-> Some(INPUT_NODE), to_node |-> Some(INPUT_NODE),
     from_pos |-> None, to_pos |-> Some(V3a), max_length |-> None]

OptNode == {None, Some(INPUT_NODE), Some(NodeTable[1]), Some(NodeTable[NumNodes]), Some(NameX)}

OC_Edits(v) ==
    {[v EXCEPT !.node = x] : x \in {NodeTable[NumNodes], NameX}}
    \cup {[v EXCEPT !.from_node = x] : x \in OptNode}
    \cup {[v EXCEPT !.to_node = x] : x \in OptNode}
    \cup {[v EXCEPT !.from_pos = x] : x \in {None, Some(V3a), Some(Vec3_EMPTY)}}
    \cup {[v EXCEPT !.to_pos = x] : x \in {None, Some(V3b), Some(Vec3_EMPTY)}}
    \cup {[v EXCEPT !.max_length = x] : x \in {None, Some("1"), Some("+0"), Some("-1")}}

FT_none ==
    [node |-> NodeTable[1], run_time |-> "1", morph |-> None, translate |-> None,
     rotate |-> None, scale |-> None]

FT_3a == [from |-> V3a, to |-> V3b, delta |-> V3a]

FT_all ==
    [node |-> NodeTable[2], run_time |-> "0.5",
     morph |-> Some([from |-> "+0", to |-> "1", delta |-> "0.5"]),
     translate |-> Some(FT_3a), rotate |-> Some(FT_3a), scale |-> Some(FT_3a)]

FT_Edits(v) ==
    {[v EXCEPT !.node = x] : x \in {NodeTable[NumNodes], NameX}}
    \cup {[v EXCEPT !.run_time = x] : x \in {"1", "+0", "-1", "nan"}}
    \cup {[v EXCEPT !.morph = x] :
            x \in {None, Some([from |-> "1", to |-> "-1", delta |-> "+0"])}}
    \cup {[v EXCEPT !.translate = x] : x \in {None, Some(FT_3a), Some(FT_zero3)}}
    \cup {[v EXCEPT !.rotate = x] : x \in {None, Some(FT_3a)}}
    \cup {[v EXCEPT !.scale = x] : x \in {None, Some(FT_3a)}}

LA_base ==
    [name |-> LightTable[1], range |-> <<"0.5", "1">>, color |-> V3a, runtime |-> "1"]

LA_Edits(v) ==
    {[v EXCEPT !.name = x] : x \in {LightTable[NumLights], NameX}}
    \cup {[v EXCEPT !.range = x] : x \in {<<"+0", "+0">>, <<"-1", "-6">>, <<"1", "0.5">>}}
    \cup {[v EXCEPT !.color = x] : x \in {Vec3_EMPTY, <<"6", "+0", "+0">>}}
    \cup {[v EXCEPT !.runtime = x] : x \in {"0.5", "+0", "-1"}}

OOS_base == [node |-> NodeTable[1], is_set |-> TRUE, state |-> FALSE, opacity |-> "0.5"]

OOS_Edits(v) ==
    {[v EXCEPT !.node = x] : x \in {NodeTable[NumNodes], NameX}}
    \cup {[v EXCEPT !.is_set = x] : x \in BOOLEAN}
    \cup {[v EXCEPT !.state = x] : x \in BOOLEAN}
    \cup {[v EXCEPT !.opacity = x] : x \in F32}

COC_base ==
    [node |-> NameA, from_node |-> NodeTable[1], to_node |-> INPUT_NODE, to_pos |-> V3a]

COC_Edits(v) ==
    {[v EXCEPT !.node = x] : x \in {NameB, <<>>}}
    \cup {[v EXCEPT !.from_node = x] : x \in {NodeTable[NumNodes], NameX}}
    \cup {[v EXCEPT !.to_node = x] : x \in {INPUT_NODE, NodeTable[1]}}
    \cup {[v EXCEPT !.to_pos = x] : x \in {Vec3_EMPTY, V3b}}

AP_anim == [tag |-> "Animation", name |-> NameA]
AP_obj(t) == [tag |-> t, name |-> NameB, required |-> TRUE, active |-> TRUE, pointer |-> 7]

AP_Edits(v) ==
    {[v EXCEPT !.name = x] : x \in {NameA, <<>>}}
    \cup (IF v.tag = "Animation" THEN {}
          ELSE {[v EXCEPT !.required = x] : x \in BOOLEAN}
               \cup {[v EXCEPT !.active = x] : x \in BOOLEAN}
               \cup {[v EXCEPT !.pointer = x] : x \in {0, 1, 256, 2147483647}})

Baselines(k) ==
    CASE k = "OM" -> {OM_none, OM_all}
      [] k = "OC" -> {OC_none, OC_all, OC_input}
      [] k = "FT" -> {FT_none, FT_all}
      [] k = "LA" -> {LA_base}
      [] k = "OOS" -> {OOS_base}
      [] k = "COC" -> {COC_base}
      [] k = "AP" -> {AP_anim, AP_obj("Object"), AP_obj("Parent")}

Edits(k, v) ==
    CASE k = "OM" -> OM_Edits(v)
      [] k = "OC" -> OC_Edits(v)
      [] k = "FT" -> FT_Edits(v)
      [] k = "LA" -> LA_Edits(v)
      [] k = "OOS" -> OOS_Edits(v)
      [] k = "COC" -> COC_Edits(v)
      [] k = "AP" -> AP_Edits(v)

\* what a field of a record may be overwritten with
AllOnes == 0..31
FlagPokes(old) == {AllOnes} \cup {(old \ {b}) \cup ({b} \ old) : b \in 0..15 \cup {31}}
IndexPokes == 0..(NumNodes + 1)
NamePokes ==
    { Zeros(NAME_LEN), str_to_c_padded(NameA), str_to_c_padded(LightTable[NumLights]),
      [i \in 1..NAME_LEN |-> IF i \in {1, 3} THEN 97 ELSE 0],
      [i \in 1..NAME_LEN |-> IF i = 2 THEN 98 ELSE 0],
      [i \in 1..NAME_LEN |-> IF i = 1 THEN 255 ELSE 0],
      [i \in 1..NAME_LEN |-> 97] }
VecPokeVals == {"+0", "-0", "1", "nan"}

PokeVals(ty, old) ==
    CASE ty = "flags" -> FlagPokes(old)
      [] ty \in {"u32", "u16"} -> IndexPokes
      [] ty = "i16" -> {-1, 0}
      [] ty = "f32" -> F32
      [] ty = "vec2" -> {[old EXCEPT ![i] = f] : i \in 1..2, f \in F32}
      [] ty = "vec3" -> {[old EXCEPT ![i] = f] : i \in 1..3, f \in VecPokeVals}
      [] ty = "name" -> NamePokes

\* (the top byte of a word stays below 128: the model's integers are 32-bit signed)
AP_BodyPokes(b) ==
    {[b EXCEPT ![i] = x] : i \in {1, 2, 5, 33, 37}, x \in {0, 1, 97, 255}}
    \cup {[b EXCEPT ![i] = x] : i \in {4, 36, 40}, x \in {0, 1, 97}}

Pokes(k, c) ==
    IF k = "AP"
    THEN {[c EXCEPT !.optional = x] : x \in 0..2}
         \cup {[c EXCEPT !.ptype = x] : x \in 0..4}
         \cup {[c EXCEPT !.body = x] : x \in AP_BodyPokes(c.body)}
    ELSE LET lay == LayoutOfKind(k).fields
         IN UNION {{[c EXCEPT ![lay[i].name] = x] : x \in PokeVals(lay[i].ty, c[lay[i].name])}
                   : i \in 1..Len(lay)}

\* where in its stream a record starts, and the sizes a caller declares
StartOffsets == {0, 1000}
DeclaredSizes(k) == {SizeOfKind(k), SizeOfKind(k) + 4}

-----------------------------------------------------------------------------
(* The streams, the GameZ values and the gamez files of the stream run.    *)

\* calls made on one reader
MaxCalls == 3
\* textures of a GameZ value
MaxTextures == 2
\* changes made to a written gamez file
MaxFilePokes == 1

StreamLens == {0, 1, 4, 6, 12, 40}
BufLens == {0, 1, 3}

TexA == <<116, 49>>
TexB == <<116, 50>>

GameZs ==
    {[textures |-> t, materials |-> [size |-> a], meshes |-> [size |-> b],
      nodes |-> [size |-> 8],
      metadata |-> [node_array_size |-> x, node_data_count |-> y]] :
        t \in UNION {[1..k -> {TexA, TexB}] : k \in 0..MaxTextures},
        a \in {4, 12}, b \in {4, 8}, x \in {1, 2}, y \in {0, 1}}

\* where the last section of a file ends
SectionsEnd(f) ==
    size_of(HeaderC) + size_of(TextureInfoC) * Len(f.textures)
    + f.materials.size + f.meshes.size + f.nodes.size

\* what a header field may be overwritten with (the texture count stays
\* within the texture infos of the file, or at the limit)
HeaderPokes(f, name) ==
    IF name = "texture_count" THEN 0..Len(f.textures) \cup {TEXTURE_LIMIT}
    ELSE {0, 1, 36, f.header[name] + 1, f.header[name] + size_of(TextureInfoC)}

TexturePokes(info) ==
    {[info EXCEPT !.zero00 = 1], [info EXCEPT !.used = 0], [info EXCEPT !.unk36 = 0],
     [info EXCEPT !.texture = [i \in 1..TEX_LEN |-> IF i = 1 THEN 255 ELSE 0]]}

FilePokes(f) ==
    UNION {{[f EXCEPT !.header[name] = x] : x \in HeaderPokes(f, name)}
           : name \in FieldNames(HeaderC)}
    \cup UNION {{[f EXCEPT !.textures[i] = x] : x \in TexturePokes(f.textures[i])}
                : i \in 1..Len(f.textures)}
    \cup {[f EXCEPT !.materials.ok = FALSE], [f EXCEPT !.meshes.ok = FALSE],
          [f EXCEPT !.nodes.ok = FALSE]}
    \cup {[f EXCEPT !.len = x] :
            x \in {0, size_of(HeaderC) - 1, size_of(HeaderC),
                   SectionsEnd(f) - 1, SectionsEnd(f) + 1, SectionsEnd(f) + 2}}

NoReader == CountingReader_new(Stream(0, FALSE))
NoReturn == [ret |-> "none", label |-> "", off |-> 0, self |-> NoReader, val |-> NoVal]
\* the call record: the last call (its name, buffer length, outcome and the
\* reader before it), and of the calls so far their number, whether all
\* returned Ok, and the offset before and the length of the last read
NoCall ==
    [name |-> "none", n |-> 0, ret |-> "none", label |-> "", off |-> 0,
     before |-> NoReader, calls |-> 0, allok |-> TRUE, pre |-> 0, size |-> 0]

\* how long a prerequisite list is, and how often its stream is changed
MaxPrereqs == 2
MaxListPokes == 1

\* the prerequisites the lists are made of
PrereqValues ==
    {AP_anim, [AP_anim EXCEPT !.name = <<>>]}
    \cup {[tag |-> t, name |-> NameB, required |-> r, active |-> a, pointer |-> 7]
          : t \in {"Object", "Parent"}, r \in BOOLEAN, a \in BOOLEAN}
    \cup {[tag |-> t, name |-> NameA, required |-> TRUE, active |-> FALSE, pointer |-> 0]
          : t \in {"Object", "Parent"}}
PrereqLists == UNION {[1..n -> PrereqValues] : n \in 0..MaxPrereqs}

\* nothing written, nothing read
NoRecord == [none |-> TRUE]
NoResult == [ok |-> FALSE, val |-> NoVal, label |-> "not read", off |-> 0,
             rd |-> [offset |-> 0, prev |-> 0]]

ListIdle ==
    /\ lpc = "idle"
    /\ prereqs = <<>>
    /\ psink = <<>>
    /\ precs = <<>>
    /\ ppokes = 0
    /\ pcount = 0
    /\ pat = 0
    /\ pres = NoResult

PeIdle ==
    /\ pe_pc = "idle"
    /\ pe_section = NoVal
    /\ pe_virt = 0
    /\ pe_build = "none"
    /\ pe_real = NoVal
    /\ pe_back = NoVal

CmdIdle ==
    /\ cpc = "idle"
    /\ cmd = "none"
    /\ cin = NoVal
    /\ cout = NoVal
    /\ cres = NoVal

IoIdle ==
    /\ io = "idle"
    /\ gamez = NoVal
    /\ gfile = NoVal
    /\ gpokes = 0
    /\ cr = NoReader
    /\ call = NoCall
    /\ gres = NoReturn

-----------------------------------------------------------------------------
(* The state machine: a value is chosen and edited, written, the record    *)
(* possibly overwritten in one field, read back, and written again.        *)

Init ==
    /\ kind \in Kinds
    /\ pc = "value"
    /\ value \in Baselines(kind)
    /\ edits = 0
    /\ sink = <<>>
    /\ wok = FALSE
    /\ record = NoRecord
    /\ pokes = 0
    /\ at = 0
    /\ declared = 0
    /\ reader = [offset |-> 0, prev |-> 0]
    /\ result = NoResult
    /\ sink2 = <<>>
    /\ wok2 = FALSE
    /\ IoIdle
    /\ ListIdle
    /\ CmdIdle
    /\ PeIdle

\* the caller builds another value
EditValue ==
    /\ pc = "value"
    /\ edits < MaxEdits
    /\ \E v \in Edits(kind, value) :
         /\ v # value
         /\ value' = v
    /\ edits' = edits + 1
    /\ UNCHANGED <<kind, pc, sink, wok, record, pokes, at, declared, reader, result, sink2, wok2>>
    /\ UNCHANGED notRecVars

\* write(value): on success the emitted bytes are the record to read
Encode ==
    /\ pc = "value"
    /\ LET w == Write(kind, value)
       IN /\ wok' = w.ok
          /\ sink' = w.sink
          /\ record' = IF w.ok THEN ImageOf(kind, w.sink) ELSE NoRecord
          /\ pc' = IF w.ok THEN "encoded" ELSE "failed"
    /\ UNCHANGED <<kind, value, edits, pokes, at, declared, reader, result, sink2, wok2>>
    /\ UNCHANGED notRecVars

\* the file holds a record that differs from the written one in one field
Poke ==
    /\ pc = "encoded"
    /\ pokes < MaxPokes
    /\ \E c \in Pokes(kind, record) :
         /\ c # record
         /\ record' = c
    /\ pokes' = pokes + 1
    /\ UNCHANGED <<kind, pc, value, edits, sink, wok, at, declared, reader, result, sink2, wok2>>
    /\ UNCHANGED notRecVars

\* read(record) with the reader positioned at the record's start
Decode ==
    /\ pc = "encoded"
    /\ \E start \in StartOffsets, size \in DeclaredSizes(kind) :
         LET r0 == [offset |-> start, prev |-> IF start = 0 THEN 0 ELSE start - 4]
             r == Read(kind, r0, record, size)
         IN /\ at' = start
            /\ declared' = size
            /\ result' = r
            /\ reader' = r.rd
    /\ pc' = "decoded"
    /\ UNCHANGED <<kind, value, edits, sink, wok, record, pokes, sink2, wok2>>
    /\ UNCHANGED notRecVars

\* write(read(record))
Reencode ==
    /\ pc = "decoded"
    /\ result.ok
    /\ LET w == Write(kind, result.val)
       IN /\ wok2' = w.ok
          /\ sink2' = w.sink
    /\ pc' = "reencoded"
    /\ UNCHANGED <<kind, value, edits, sink, wok, record, pokes, at, declared, reader, result>>
    /\ UNCHANGED notRecVars

Next == EditValue \/ Encode \/ Poke \/ Decode \/ Reencode

Spec == Init /\ [][Next]_vars

-----------------------------------------------------------------------------
(* The stream run: calls on a CountingReader over a stream, or a GameZ     *)
(* value written by write_gamez, the file possibly changed, and read back  *)
(* by read_gamez.                                                          *)

RecIdle ==
    /\ kind = "none"
    /\ pc = "idle"
    /\ value = NoVal
    /\ edits = 0
    /\ sink = <<>>
    /\ wok = FALSE
    /\ record = NoRecord
    /\ pokes = 0
    /\ at = 0
    /\ declared = 0
    /\ reader = [offset |-> 0, prev |-> 0]
    /\ result = NoResult
    /\ sink2 = <<>>
    /\ wok2 = FALSE

IoInit ==
    /\ RecIdle
    /\ ListIdle
    /\ CmdIdle
    /\ PeIdle
    /\ gpokes = 0
    /\ call = NoCall
    /\ gres = NoReturn
    /\ gfile = NoVal
    /\ \/ /\ io = "stream"
          /\ gamez = NoVal
          /\ cr \in {CountingReader_new(Stream(l, g)) : l \in StreamLens, g \in BOOLEAN}
       \/ /\ io = "value"
          /\ gamez \in GameZs
          /\ cr = NoReader

\* one call on the reader, with what it returned
StreamCall(name, n, isRead, r) ==
    /\ io = "stream"
    /\ call.calls < MaxCalls
    /\ cr' = r.self
    /\ call' = [name |-> name, n |-> n, ret |-> r.ret, label |-> r.label, off |-> r.off,
                before |-> cr,
                calls |-> call.calls + 1,
                allok |-> call.allok /\ r.ret = "Ok",
                pre |-> IF isRead /\ r.ret = "Ok" THEN cr.offset ELSE call.pre,
                size |-> IF isRead /\ r.ret = "Ok" THEN n ELSE call.size]
    /\ UNCHANGED <<io, gamez, gfile, gpokes, gres>>
    /\ UNCHANGED notIoVars

\* read_u32, read_i32, read_f32, read_u16, read_i16
ReadScalar ==
    \E name \in DOMAIN ScalarLen :
        StreamCall(name, ScalarLen[name], TRUE, read_scalar(cr, name))

ReadStruct ==
    \E S \in {HeaderC, TextureInfoC, ObjectOpacityStateC} :
        StreamCall("read_struct", size_of(S), TRUE, read_struct(cr, S))

ReadExact ==
    \E n \in BufLens :
        StreamCall("read_exact", n, TRUE, CountingReader_read_exact(cr, n))

AssertEnd == StreamCall("assert_end", 0, FALSE, assert_end(cr))

WriteGamez ==
    /\ io = "value"
    /\ gfile' = FileOf(write_gamez(gamez))
    /\ io' = "file"
    /\ UNCHANGED <<gamez, gpokes, cr, call, gres>>
    /\ UNCHANGED notIoVars

\* the file on disk differs from the written one
ChangeFile ==
    /\ io = "file"
    /\ gpokes < MaxFilePokes
    /\ \E f \in FilePokes(gfile) :
         /\ f # gfile
         /\ gfile' = f
    /\ gpokes' = gpokes + 1
    /\ UNCHANGED <<io, gamez, cr, call, gres>>
    /\ UNCHANGED notIoVars

\* read_gamez on a new reader over the file
ReadGamez ==
    /\ io = "file"
    /\ \E g \in BOOLEAN :
         LET r == read_gamez(CountingReader_new(Stream(gfile.len, g)), gfile)
         IN /\ gres' = r
            /\ cr' = r.self
    /\ io' = "read"
    /\ UNCHANGED <<gamez, gfile, gpokes, call>>
    /\ UNCHANGED notIoVars

IoNext ==
    ReadScalar \/ ReadStruct \/ ReadExact \/ AssertEnd \/ WriteGamez \/ ChangeFile
    \/ ReadGamez

IoSpec == IoInit /\ [][IoNext]_vars

-----------------------------------------------------------------------------
(* The list run: a list of activation prerequisites is written, one         *)
(* prerequisite of the stream possibly overwritten in one field, and a      *)
(* count of prerequisites read back.                                        *)

ListInit ==
    /\ RecIdle
    /\ IoIdle
    /\ CmdIdle
    /\ PeIdle
    /\ lpc = "list"
    /\ prereqs \in PrereqLists
    /\ psink = <<>>
    /\ precs = <<>>
    /\ ppokes = 0
    /\ pcount = 0
    /\ pat = 0
    /\ pres = NoResult

\* write_activ_prereqs(prereqs)
WritePrereqs ==
    /\ lpc = "list"
    /\ LET w == write_activ_prereqs(prereqs)
       IN /\ psink' = w.sink
          /\ precs' = PrereqsOf(w.sink)
    /\ lpc' = "written"
    /\ UNCHANGED <<prereqs, ppokes, pcount, pat, pres>>
    /\ UNCHANGED notListVars

\* the stream holds a prerequisite that differs from the written one
ChangePrereqs ==
    /\ lpc = "written"
    /\ ppokes < MaxListPokes
    /\ \E i \in 1..Len(precs) :
         \E c \in Pokes("AP", precs[i]) :
             /\ c # precs[i]
             /\ precs' = [precs EXCEPT ![i] = c]
    /\ ppokes' = ppokes + 1
    /\ UNCHANGED <<lpc, prereqs, psink, pcount, pat, pres>>
    /\ UNCHANGED notListVars

\* read_activ_prereqs(read, count) with the reader at the first prerequisite
ReadPrereqs ==
    /\ lpc = "written"
    /\ \E start \in StartOffsets, count \in 0..(Len(precs) + 1) :
         LET r0 == [offset |-> start, prev |-> IF start = 0 THEN 0 ELSE start - 4]
         IN /\ pat' = start
            /\ pcount' = count
            /\ pres' = read_activ_prereqs(r0, precs, 1, count)
    /\ lpc' = "read"
    /\ UNCHANGED <<prereqs, psink, precs, ppokes>>
    /\ UNCHANGED notListVars

ListNext == WritePrereqs \/ ChangePrereqs \/ ReadPrereqs

ListSpec == ListInit /\ [][ListNext]_vars

-----------------------------------------------------------------------------
(* The unzbd extraction commands (src/bin/unzbd/commands.rs).  A command    *)
(* opens its input, decodes it, and writes a zip file at its output path.   *)
(* The decoders (read_gamez, read_anim, read_archive and the per-entry      *)
(* readers) are kept as the entries they hand to their callback, in order,  *)
(* and the entry at which they fail, if any.                                *)

\* how many entries an input asset holds
MaxEntries == 2

\* the output path: no file, a file from an earlier run, and what
\* File::create leaves there (a new or truncated, empty file)
NoFile == [exists |-> FALSE, entries |-> <<>>, finished |-> FALSE]
OldFile == [exists |-> TRUE, entries |-> <<"old">>, finished |-> TRUE]
Created == [exists |-> TRUE, entries |-> <<>>, finished |-> FALSE]

\* anyhow::Result<()> of a command, with the output path as it is left
CmdOk(out) == [err |-> "none", out |-> out]
CmdErr(err, out) == [err |-> err, out |-> out]

\* lines 96-179: the zip entries the save_file closure of a command writes
\* for one archive entry
save_file(command, name) ==
    CASE command = "sounds" -> <<name>>
      [] command = "reader" -> <<name>>
      [] command = "motion" -> <<name>>
      [] command = "mechlib" ->
            IF name \in {"format", "version"} THEN <<>> ELSE <<name>>
      [] OTHER -> <<name>>

\* the zip entries written for the first n entries of the input
RECURSIVE Saved(_, _, _)
Saved(command, names, n) ==
    IF n = 0 THEN <<>>
    ELSE Saved(command, names, n - 1) \o save_file(command, names[n])

\* the decode of an input with its callback: the entries before the failing
\* one are handed over, or all of them
Handed(in) == IF in.fail = 0 THEN Len(in.entries) ELSE in.fail - 1

\* lines 74-94
unzbd_zarchive(command, in, out) ==
    IF ~in.readable THEN CmdErr("io", out)
    ELSE IF ~in.writable THEN CmdErr("io", out)
    ELSE LET zip == [Created EXCEPT !.entries = Saved(command, in.entries, Handed(in))]
         IN IF in.fail # 0 THEN CmdErr("decode", zip)
            ELSE CmdOk([zip EXCEPT !.entries = @ \o <<"manifest.json">>,
                                   !.finished = TRUE])

\* lines 148-179: mechlib bails out for Pirate's Moon before it opens a file
unzbd_mechlib(in, out) ==
    IF in.is_pm THEN CmdErr("unsupported", out)
    ELSE unzbd_zarchive("mechlib", in, out)

\* lines 201-223
unzbd_gamez(in, out) ==
    IF in.is_pm THEN CmdErr("unsupported", out)
    ELSE IF ~in.readable THEN CmdErr("io", out)
    ELSE IF in.fail # 0 THEN CmdErr("decode", out)
    ELSE IF ~in.writable THEN CmdErr("io", out)
    ELSE CmdOk([Created EXCEPT
                  !.entries = <<"metadata.json", "textures.json", "materials.json",
                                "meshes.json", "nodes.json">>,
                  !.finished = TRUE])

\* lines 225-243
unzbd_anim(in, out) ==
    IF in.is_pm THEN CmdErr("unsupported", out)
    ELSE IF ~in.readable THEN CmdErr("io", out)
    ELSE IF ~in.writable THEN CmdErr("io", out)
    ELSE LET zip == [Created EXCEPT !.entries = Saved("anim", in.entries, Handed(in))]
         IN IF in.fail # 0 THEN CmdErr("decode", zip)
            ELSE CmdOk([zip EXCEPT !.entries = @ \o <<"metadata.json">>,
                                   !.finished = TRUE])

\* the commands, their options and their inputs
ArchiveCommands == {"sounds", "reader", "motion"}
Commands == {"gamez", "anim", "mechlib"} \cup ArchiveCommands
EntryNames == {"format", "version", "materials", "a"}
CmdInputs ==
    UNION {{[is_pm |-> pm, readable |-> rd, writable |-> wr, entries |-> es, fail |-> f]
            : pm \in BOOLEAN, rd \in BOOLEAN, wr \in BOOLEAN,
              f \in 0..(Len(es) + 1)}
           : es \in UNION {[1..n -> EntryNames] : n \in 0..MaxEntries}}

CmdInit ==
    /\ RecIdle
    /\ IoIdle
    /\ ListIdle
    /\ PeIdle
    /\ cpc = "start"
    /\ cmd \in Commands
    /\ cin \in CmdInputs
    /\ cout \in {NoFile, OldFile}
    /\ cres = NoVal

\* one command, from its call to its return
Command(r) ==
    /\ cpc = "start"
    /\ cres' = [err |-> r.err, before |-> cout]
    /\ cout' = r.out
    /\ cpc' = "done"
    /\ UNCHANGED <<cmd, cin>>
    /\ UNCHANGED notCmdVars

RunGamez == cmd = "gamez" /\ Command(unzbd_gamez(cin, cout))
RunAnim == cmd = "anim" /\ Command(unzbd_anim(cin, cout))
RunMechlib == cmd = "mechlib" /\ Command(unzbd_mechlib(cin, cout))
RunZArchive == cmd \in ArchiveCommands /\ Command(unzbd_zarchive(cmd, cin, cout))

CmdNext == RunGamez \/ RunAnim \/ RunMechlib \/ RunZArchive

CmdSpec == CmdInit /\ [][CmdNext]_vars

-----------------------------------------------------------------------------
(* PE section address translation (mech3ax-messages/src/pe/structures.rs). *)
(* The u32 fields are kept as words of WordBits bits, so that every         *)
(* combination of the four fields and an address is examined and the        *)
(* unchecked additions can exceed the word.                                 *)

\* the width of a word
WordBits == 3
WordLimit == 2 ^ WordBits
Words == 0..(WordLimit - 1)

\* Result<Option<_>>: Ok(Some(val)), Ok(None), an Underflow or Overflow
\* error with its bound, or the panic of an overflowing addition
PeSome(val) == [tag |-> "Some", val |-> val]
PeNone == [tag |-> "None", val |-> 0]
PeUnderflow(bound) == [tag |-> "Underflow", val |-> bound]
PeOverflow(bound) == [tag |-> "Overflow", val |-> bound]
PePanic == [tag |-> "panic", val |-> 0]

\* a + b on words: a build with overflow checks panics when the sum leaves
\* the word, a build without them wraps
word_add(build, a, b) ==
    IF a + b < WordLimit THEN PeSome(a + b)
    ELSE IF build = "debug" THEN PePanic
    ELSE PeSome((a + b) % WordLimit)

\* a variant translation that refuses the address at the end of the raw data
virt_to_real_strict(build, self, virt) ==
    IF virt < self.virtual_address THEN PeUnderflow(self.virtual_address)
    ELSE LET delta == virt - self.virtual_address
         IN IF delta > self.virtual_size
            THEN LET bound == word_add(build, self.virtual_address, self.virtual_size)
                 IN IF bound.tag = "panic" THEN PePanic ELSE PeOverflow(bound.val)
            ELSE IF delta >= self.size_of_raw_data THEN PeNone
            ELSE word_add(build, self.pointer_to_raw_data, delta)

\* lines 154-178
virt_to_real(build, self, virt) ==
    IF virt < self.virtual_address THEN PeUnderflow(self.virtual_address)
    ELSE LET delta == virt - self.virtual_address
         IN IF delta > self.virtual_size
            THEN LET bound == word_add(build, self.virtual_address, self.virtual_size)
                 IN IF bound.tag = "panic" THEN PePanic ELSE PeOverflow(bound.val)
            ELSE IF delta > self.size_of_raw_data THEN PeNone
            ELSE word_add(build, self.pointer_to_raw_data, delta)

\* lines 181-206
real_to_virt(build, self, real) ==
    IF real < self.pointer_to_raw_data THEN PeUnderflow(self.pointer_to_raw_data)
    ELSE LET delta == real - self.pointer_to_raw_data
         IN IF delta > self.size_of_raw_data
            THEN LET bound == word_add(build, self.pointer_to_raw_data, self.size_of_raw_data)
                 IN IF bound.tag = "panic" THEN PePanic ELSE PeOverflow(bound.val)
            ELSE IF delta > self.virtual_size THEN PeNone
            ELSE word_add(build, self.virtual_address, delta)

\* lines 130-141: the four fields of IMAGE_SECTION_HEADER the translation reads
SectionHeaders ==
    [virtual_size : Words, virtual_address : Words,
     size_of_raw_data : Words, pointer_to_raw_data : Words]

PeInit ==
    /\ RecIdle
    /\ IoIdle
    /\ ListIdle
    /\ CmdIdle
    /\ pe_pc = "start"
    /\ pe_section \in SectionHeaders
    /\ pe_virt \in Words
    /\ pe_build \in {"debug", "release"}
    /\ pe_real = NoVal
    /\ pe_back = NoVal

\* section.virt_to_real(virt)
VirtToReal ==
    /\ pe_pc = "start"
    /\ pe_real' = virt_to_real(pe_build, pe_section, pe_virt)
    /\ pe_pc' = "real"
    /\ UNCHANGED <<pe_section, pe_virt, pe_build, pe_back>>
    /\ UNCHANGED notPeVars

\* section.real_to_virt(real) for the file offset virt_to_real returned
RealToVirt ==
    /\ pe_pc = "real"
    /\ pe_real.tag = "Some"
    /\ pe_back' = real_to_virt(pe_build, pe_section, pe_real.val)
    /\ pe_pc' = "virt"
    /\ UNCHANGED <<pe_section, pe_virt, pe_build, pe_real>>
    /\ UNCHANGED notPeVars

PeNext == VirtToReal \/ RealToVirt

PeSpec == PeInit /\ [][PeNext]_vars

-----------------------------------------------------------------------------
(* Properties.                                                             *)

\* read has returned (its result stays in place while the value is rewritten)
Decoded == pc \in {"decoded", "reencoded"}
\* the caller declared the record type's SIZE, so that read gets to the fields
SizeOk == declared = SizeOfKind(kind)
\* the record read is the one write emitted, untouched
Untouched == pokes = 0

\* what ObjectMotion::read demands of the payloads write copies unchecked
OM_decodable(v) ==
    /\ IsSome(v.runtime) => FPos(Get(v.runtime))
    /\ IsSome(v.bounce_sound) => FPos(Get(v.bounce_sound).volume)
    /\ IsSome(v.bounce_sequence) =>
          /\ IsSome(Get(v.bounce_sequence)[1])
          /\ \A i \in 1..3 : IsSome(Get(v.bounce_sequence)[i])
                               => Get(Get(v.bounce_sequence)[i]) # <<>>

\* C1 (as stated): for every ObjectMotion value whose names are in the
\* context (write succeeds), read of the written bytes succeeds and returns
\* the value.
C1_Stated ==
    (kind = "OM" /\ Decoded /\ Untouched /\ SizeOk)
        => (result.ok /\ result.val = value)

\* C1 (amended): the object-motion round trip read(write(v)) = v holds for
\* every value whose names are in the context and whose payloads the decoder
\* accepts: a present runtime is > 0, a present bounce-sound volume is > 0,
\* and a present bounce sequence has a first name and no empty name.
C1_RoundTrip ==
    (kind = "OM" /\ Decoded /\ Untouched /\ SizeOk /\ OM_decodable(value))
        => (result.ok /\ result.val = value)

C1_Witness ==
    /\ kind = "OM" /\ Decoded /\ Untouched /\ SizeOk /\ OM_decodable(value)
    /\ IsSome(value.bounce_sequence) /\ IsSome(value.runtime)
    /\ IsSome(value.gravity) /\ ~IsSome(value.scale)
    /\ result.ok

\* what ObjectConnector::read demands of a value: a position only with its
\* node, and a positive maximum length
OC_decodable(v) ==
    /\ IsSome(v.max_length) => FPos(Get(v.max_length))
    /\ IsSome(v.from_pos) => IsSome(v.from_node)
    /\ IsSome(v.to_pos) => IsSome(v.to_node)

\* C2 (as stated): for every ObjectConnector value whose names are in the
\* context, read of the written bytes succeeds and returns the value.
C2_Stated ==
    (kind = "OC" /\ Decoded /\ Untouched /\ SizeOk)
        => (result.ok /\ result.val = value)

\* C2 (amended): the object-connector round trip read(write(v)) = v holds
\* for every value whose names are in the context, whose from_pos (to_pos)
\* is present only when from_node (to_node) is present, and whose max_length,
\* when present, is > 0.
C2_RoundTrip ==
    (kind = "OC" /\ Decoded /\ Untouched /\ SizeOk /\ OC_decodable(value))
        => (result.ok /\ result.val = value)

C2_Witness ==
    /\ kind = "OC" /\ Decoded /\ Untouched /\ SizeOk /\ OC_decodable(value)
    /\ value.from_node = Some(INPUT_NODE) /\ IsSome(value.to_pos)
    /\ IsSome(value.max_length)
    /\ result.ok

\* the six sequence-event record types
Variants == Kinds \ {"AP"}

\* C3: for each of the six variants, every record that read accepts is
\* written back by write(read(b)) as the identical record.
C3_ByteExact ==
    (kind \in Variants /\ pc = "reencoded")
        => (wok2 /\ Len(sink2) = 1 /\ sink2[1].img = record)

\* C4: a successful write of any of the six variants emits one record of
\* exactly the declared SIZE (320, 76, 132, 100, 12, 68) that holds every
\* field of the layout, whatever options are absent.
C4_FixedSize ==
    (kind \in Variants /\ pc # "value" /\ wok)
        => /\ Len(sink) = 1
           /\ sink[1].size = SizeOfKind(kind)
           /\ SinkBytes(sink) = SizeOfKind(kind)
           /\ DOMAIN sink[1].img = FieldNames(LayoutOfKind(kind))

C4_Witness ==
    /\ kind = "OM" /\ pc = "encoded" /\ wok /\ Untouched
    /\ value.gravity = None /\ value.bounce_sequence = None /\ value.runtime = None
    /\ sink[1].size = 320

\* the record types whose optional groups are controlled by flag bits
Flagged == {"OM", "FT", "OC"}

\* one optional group as write must emit it: absent, none of its bits and a
\* zero slot; present, one of its bits and the payload in the slot
GroupWritten(o, bits, flags, zero, payload) ==
    IF IsSome(o) THEN bits \cap flags # {} /\ payload
    ELSE bits \cap flags = {} /\ zero

Zero3(c, f1, f2, f3) ==
    c[f1] = Vec3_EMPTY /\ c[f2] = Vec3_EMPTY /\ c[f3] = Vec3_EMPTY

C5_OM(v, c) ==
    /\ GroupWritten(v.gravity, {OM_GRAVITY, OM_GRAVITY_COMPLEX, OM_GRAVITY_NO_ALTITUDE},
                    c.flags, c.gravity = "+0",
                    OM_GRAVITY \in c.flags /\ c.gravity = Get(v.gravity).value)
    /\ GroupWritten(v.translation_range_min, {OM_TRANSLATION_MIN}, c.flags,
                    OM_trans_min([c EXCEPT !.flags = {OM_TRANSLATION_MIN}]) = Some(Vec4_EMPTY),
                    OM_trans_min(c) = v.translation_range_min)
    /\ GroupWritten(v.translation_range_max, {OM_TRANSLATION_MAX}, c.flags,
                    OM_trans_max([c EXCEPT !.flags = {OM_TRANSLATION_MAX}]) = Some(Vec4_EMPTY),
                    OM_trans_max(c) = v.translation_range_max)
    /\ GroupWritten(v.translation, {OM_TRANSLATION}, c.flags,
                    Zero3(c, "trans_delta", "trans_initial", "unk100"),
                    <<c.trans_delta, c.trans_initial, c.unk100>> = Get(v.translation))
    /\ GroupWritten(v.forward_rotation,
                    {OM_FORWARD_ROTATION_TIME, OM_FORWARD_ROTATION_DISTANCE}, c.flags,
                    c.forward_rotation_1 = "+0" /\ c.forward_rotation_2 = "+0",
                    /\ c.forward_rotation_1 = Get(v.forward_rotation)[2]
                    /\ IF Get(v.forward_rotation)[1] = "Time"
                       THEN /\ OM_FORWARD_ROTATION_TIME \in c.flags
                            /\ c.forward_rotation_2 = Get(v.forward_rotation)[3]
                       ELSE /\ OM_FORWARD_ROTATION_DISTANCE \in c.flags
                            /\ c.forward_rotation_2 = "+0")
    /\ GroupWritten(v.xyz_rotation, {OM_XYZ_ROTATION}, c.flags,
                    c.xyz_rotation = Vec3_EMPTY /\ c.unk136 = Vec3_EMPTY,
                    <<c.xyz_rotation, c.unk136>> = Get(v.xyz_rotation))
    /\ GroupWritten(v.scale, {OM_SCALE}, c.flags,
                    c.scale = Vec3_EMPTY /\ c.unk172 = Vec3_EMPTY,
                    <<c.scale, c.unk172>> = Get(v.scale))
    /\ GroupWritten(v.bounce_sequence, {OM_BOUNCE_SEQ}, c.flags,
                    /\ all_zero(c.bounce_seq0_name)
                    /\ all_zero(c.bounce_seq1_name)
                    /\ all_zero(c.bounce_seq2_name),
                    \A i \in 1..3 :
                       c[<<"bounce_seq0_name", "bounce_seq1_name", "bounce_seq2_name">>[i]]
                         = IF IsSome(Get(v.bounce_sequence)[i])
                           THEN str_to_c_padded(Get(Get(v.bounce_sequence)[i]))
                           ELSE Zeros(NAME_LEN))
    /\ GroupWritten(v.bounce_sound, {OM_BOUNCE_SOUND}, c.flags,
                    c.bounce_snd0_index = 0 /\ c.bounce_snd0_volume = "+0",
                    /\ SoundTable[c.bounce_snd0_index] = Get(v.bounce_sound).name
                    /\ c.bounce_snd0_volume = Get(v.bounce_sound).volume)
    /\ GroupWritten(v.runtime, {OM_RUNTIME}, c.flags,
                    c.runtime = "+0", c.runtime = Get(v.runtime))

C5_FT(v, c) ==
    /\ GroupWritten(v.morph, {FT_MORPH}, c.flags,
                    c.morph_from = "+0" /\ c.morph_to = "+0" /\ c.morph_delta = "+0",
                    [from |-> c.morph_from, to |-> c.morph_to, delta |-> c.morph_delta]
                        = Get(v.morph))
    /\ GroupWritten(v.translate, {FT_TRANSLATE}, c.flags,
                    Zero3(c, "translate_from", "translate_to", "translate_delta"),
                    [from |-> c.translate_from, to |-> c.translate_to,
                     delta |-> c.translate_delta] = Get(v.translate))
    /\ GroupWritten(v.rotate, {FT_ROTATE}, c.flags,
                    Zero3(c, "rotate_from", "rotate_to", "rotate_delta"),
                    [from |-> c.rotate_from, to |-> c.rotate_to,
                     delta |-> c.rotate_delta] = Get(v.rotate))
    /\ GroupWritten(v.scale, {FT_SCALE}, c.flags,
                    Zero3(c, "scale_from", "scale_to", "scale_delta"),
                    [from |-> c.scale_from, to |-> c.scale_to,
                     delta |-> c.scale_delta] = Get(v.scale))

C5_OC(v, c) ==
    /\ GroupWritten(v.from_node, {OC_FROM_NODE, OC_FROM_INPUT_NODE}, c.flags,
                    c.from_index = 0,
                    IF Get(v.from_node) = INPUT_NODE
                    THEN OC_FROM_INPUT_NODE \in c.flags /\ c.from_index = 0
                    ELSE OC_FROM_NODE \in c.flags
                         /\ NodeTable[c.from_index] = Get(v.from_node))
    /\ GroupWritten(v.to_node, {OC_TO_NODE, OC_TO_INPUT_NODE}, c.flags,
                    c.to_index = 0,
                    IF Get(v.to_node) = INPUT_NODE
                    THEN OC_TO_INPUT_NODE \in c.flags /\ c.to_index = 0
                    ELSE OC_TO_NODE \in c.flags
                         /\ NodeTable[c.to_index] = Get(v.to_node))
    /\ GroupWritten(v.from_pos, {OC_FROM_POS}, c.flags,
                    c.from_pos = Vec3_EMPTY, c.from_pos = Get(v.from_pos))
    /\ GroupWritten(v.to_pos, {OC_TO_POS}, c.flags,
                    c.to_pos = Vec3_EMPTY, c.to_pos = Get(v.to_pos))
    /\ GroupWritten(v.max_length, {OC_MAX_LENGTH}, c.flags,
                    c.max_length = "+0", c.max_length = Get(v.max_length))

\* C5: in the records that ObjectMotion::write, ObjectMotionFromTo::write
\* and ObjectConnector::write emit, every flag-controlled optional group
\* that is None has its flag bit(s) clear and every field of its slot zero,
\* and every group that is Some has its bit set and its payload in the slot.
C5_SentinelEncode ==
    (kind \in Flagged /\ pc = "encoded" /\ Untouched)
        => CASE kind = "OM" -> C5_OM(value, record)
             [] kind = "FT" -> C5_FT(value, record)
             [] kind = "OC" -> C5_OC(value, record)

C5_Witness ==
    /\ kind = "OM" /\ pc = "encoded" /\ Untouched
    /\ value.gravity = None
    /\ IsSome(value.translation) /\ IsSome(value.bounce_sound)
    /\ OM_GRAVITY \notin record.flags /\ OM_TRANSLATION \in record.flags

\* a float field that is not the zero sentinel (0.0 == -0.0; NaN is not zero)
NonZero(f) == ~FEq(f, "+0")
NonZero3(v) == ~Vec3Eq(v, Vec3_EMPTY)

\* a group of the record whose flag bit is clear and whose slot is not zero
OM_AbsentDirty(c) ==
    \/ OM_GRAVITY \notin c.flags /\ NonZero(c.gravity)
    \/ /\ OM_TRANSLATION_MIN \notin c.flags
       /\ \E f \in {"trans_range_min_1", "trans_range_min_2",
                    "trans_range_min_3", "trans_range_min_4"} : NonZero(c[f])
    \/ /\ OM_TRANSLATION_MAX \notin c.flags
       /\ \E f \in {"trans_range_max_1", "trans_range_max_2",
                    "trans_range_max_3", "trans_range_max_4"} : NonZero(c[f])
    \/ /\ OM_TRANSLATION \notin c.flags
       /\ \E f \in {"trans_delta", "trans_initial", "unk100"} : NonZero3(c[f])
    \/ /\ c.flags \cap {OM_FORWARD_ROTATION_TIME, OM_FORWARD_ROTATION_DISTANCE} = {}
       /\ (NonZero(c.forward_rotation_1) \/ NonZero(c.forward_rotation_2))
    \/ /\ OM_XYZ_ROTATION \notin c.flags
       /\ (NonZero3(c.xyz_rotation) \/ NonZero3(c.unk136))
    \/ OM_SCALE \notin c.flags /\ (NonZero3(c.scale) \/ NonZero3(c.unk172))
    \/ /\ OM_BOUNCE_SEQ \notin c.flags
       /\ \E f \in {"bounce_seq0_name", "bounce_seq1_name", "bounce_seq2_name"} :
            ~all_zero(c[f])
    \/ /\ OM_BOUNCE_SOUND \notin c.flags
       /\ (c.bounce_snd0_index # 0 \/ NonZero(c.bounce_snd0_volume))
    \/ OM_RUNTIME \notin c.flags /\ NonZero(c.runtime)

FT_AbsentDirty(c) ==
    \/ /\ FT_MORPH \notin c.flags
       /\ \E f \in {"morph_from", "morph_to", "morph_delta"} : NonZero(c[f])
    \/ /\ FT_TRANSLATE \notin c.flags
       /\ \E f \in {"translate_from", "translate_to", "translate_delta"} : NonZero3(c[f])
    \/ /\ FT_ROTATE \notin c.flags
       /\ \E f \in {"rotate_from", "rotate_to", "rotate_delta"} : NonZero3(c[f])
    \/ /\ FT_SCALE \notin c.flags
       /\ \E f \in {"scale_from", "scale_to", "scale_delta"} : NonZero3(c[f])

\* the object-connector groups other than the two node indices
OC_AbsentDirtyPayload(c) ==
    \/ OC_FROM_POS \notin c.flags /\ NonZero3(c.from_pos)
    \/ OC_TO_POS \notin c.flags /\ NonZero3(c.to_pos)
    \/ OC_MAX_LENGTH \notin c.flags /\ NonZero(c.max_length)

OC_AbsentDirtyIndex(c) ==
    \/ OC_FROM_NODE \notin c.flags /\ c.from_index # 0
    \/ OC_TO_NODE \notin c.flags /\ c.to_index # 0

AbsentDirty(k, c) ==
    CASE k = "OM" -> OM_AbsentDirty(c)
      [] k = "FT" -> FT_AbsentDirty(c)
      [] k = "OC" -> OC_AbsentDirtyPayload(c) \/ OC_AbsentDirtyIndex(c)

\* C6: for object-motion, object-motion-from-to and object-connector, read
\* fails whenever a group's flag bit is clear and a field of its slot is not
\* zero, the object-connector from_index and to_index (FROM_NODE and TO_NODE
\* clear) included.
C6_SentinelDecode ==
    (kind \in Flagged /\ Decoded /\ AbsentDirty(kind, record)) => ~result.ok

\* the flag bits a record type knows
KnownFlags(k) ==
    CASE k = "OM" -> ObjectMotionFlags
      [] k = "OC" -> ObjectConnectorFlags
      [] k = "FT" -> ObjectMotionFromToFlags

FlagsLabel(k) ==
    CASE k = "OM" -> "valid object motion flags"
      [] k = "OC" -> "valid object connector flags"
      [] k = "FT" -> "valid object motion from flags"

\* C7: for object-motion, object-connector and object-motion-from-to, a flag
\* word with a bit outside the known set makes read fail with the error that
\* names the invalid flag word, at the offset of the flags field (record
\* start + 0), whatever else is wrong with the record; it is never masked
\* into a successful read.
C7_InvalidFlags ==
    (kind \in Flagged /\ Decoded /\ SizeOk /\ ~(record.flags \subseteq KnownFlags(kind)))
        => /\ ~result.ok
           /\ result.label = FlagsLabel(kind)
           /\ result.off = at + 0

\* all-ones flags at a non-zero start, in a record that has a second fault
C7_Witness ==
    /\ kind = "OM" /\ Decoded /\ SizeOk /\ at = 1000
    /\ record.flags = AllOnes
    /\ ~FPos(record.runtime)
    /\ ~result.ok /\ result.off = 1000

OOS_Valid(c) ==
    /\ c.is_set \in {0, 1} /\ c.state \in {0, 1}
    /\ FLe("+0", c.opacity) /\ FLe(c.opacity, "1")
    /\ c.node_index \in DOMAIN NodeTable

\* C8: a 12-byte object-opacity-state record with is_set and state in
\* {0, 1}, opacity within [0.0, 1.0] and a node index of the node table
\* decodes to {is_set, state, opacity, node = the name of that index} and
\* is written back as the identical record; with is_set and state valid, an
\* opacity outside [0.0, 1.0] is rejected at record offset 4.
C8_OpacityState ==
    (kind = "OOS" /\ Decoded /\ SizeOk)
        => /\ OOS_Valid(record) =>
                /\ result.ok
                /\ result.val = [is_set |-> record.is_set = 1,
                                 state |-> record.state = 1,
                                 opacity |-> record.opacity,
                                 node |-> NodeTable[record.node_index]]
                /\ pc = "reencoded" =>
                     /\ wok2
                     /\ sink2 = <<[size |-> 12, img |-> record]>>
           /\ ~(FLe("+0", record.opacity) /\ FLe(record.opacity, "1")) =>
                /\ ~result.ok
                /\ (record.is_set \in {0, 1} /\ record.state \in {0, 1})
                      => result.off = at + 4

\* is_set = 1, state = 0, opacity 0.5 read at a non-zero start and rewritten
C8_Witness ==
    /\ kind = "OOS" /\ pc = "reencoded" /\ SizeOk /\ at = 1000
    /\ record.is_set = 1 /\ record.state = 0 /\ record.opacity = "0.5"
    /\ record.node_index = NumNodes
    /\ wok2

\* an opacity above 1.0 rejected at offset 4 of the record
C8_WitnessRejected ==
    /\ kind = "OOS" /\ Decoded /\ SizeOk /\ at = 1000
    /\ record.opacity = "6" /\ ~result.ok /\ result.off = 1004

\* the literal name of a light-animation record decodes, its light index is
\* in the light table, and the two name different lights
LA_NamesDisagree(c) ==
    /\ str_from_c_padded_ok(c.name)
    /\ c.light_index \in DOMAIN LightTable
    /\ CPrefix(c.name) # LightTable[c.light_index]

\* C9: LightAnimation::read fails with the "light anim name" mismatch error
\* at the light-index field (record start + 32) whenever the embedded name
\* differs from the light table's name for light_index; and every record
\* LightAnimation::write emits carries a light_index and a name of the same
\* light.
C9_LightName ==
    /\ (kind = "LA" /\ Decoded /\ SizeOk /\ LA_NamesDisagree(record))
          => /\ ~result.ok
             /\ result.label = "light anim name"
             /\ result.off = at + 32
    /\ (kind = "LA" /\ pc = "encoded" /\ Untouched)
          => /\ record.light_index \in DOMAIN LightTable
             /\ CPrefix(record.name) = LightTable[record.light_index]
             /\ LightTable[record.light_index] = value.name

\* a record naming one light and indexing another, rejected at start + 32
C9_Witness ==
    /\ kind = "LA" /\ Decoded /\ SizeOk /\ at = 1000
    /\ LA_NamesDisagree(record)
    /\ ~result.ok /\ result.off = 1032

\* a written record for the last light of the table
C9_WitnessWritten ==
    /\ kind = "LA" /\ pc = "encoded" /\ Untouched
    /\ value.name = LightTable[NumLights]
    /\ record.light_index = NumLights

\* C10: read_activ_prereq fails when the type word is Animation (1) and the
\* boolean word before it is 1 (optional), at the offset of that boolean
\* word; and write_activ_prereq_anim writes the boolean word as 0.
C10_AnimationRequired ==
    /\ (kind = "AP" /\ Decoded /\ record.ptype = AP_Animation /\ record.optional = 1)
          => /\ ~result.ok
             /\ result.label = "anim def activ prereq required"
             /\ result.off = at
    /\ (kind = "AP" /\ pc = "encoded" /\ Untouched /\ value.tag = "Animation")
          => /\ sink[1] = [size |-> 4, img |-> 0]
             /\ sink[2] = [size |-> 4, img |-> AP_Animation]
             /\ record.optional = 0

\* an optional Animation prerequisite rejected at the boolean word
C10_Witness ==
    /\ kind = "AP" /\ Decoded /\ at = 1000
    /\ record.ptype = AP_Animation /\ record.optional = 1
    /\ ~result.ok /\ result.off = 1000

\* the text a name slot holds, as a C string: the bytes before the first NUL
SlotText(buf) == CPrefix(buf)

\* C11: ObjectMotion::read fails whenever BOUNCE_SEQ is set and the first
\* 32-byte name slot is entirely zero, whatever the second and third slots
\* hold, and (when no earlier field check of the record fails) the error is
\* "Expected at least one bounce sequence" at record start + 196; and in a
\* record read accepts with BOUNCE_SEQ set, the first name is present and the
\* second and third names are each present exactly when their slot holds a
\* non-empty text.
C11_BounceSeqFirstName ==
    (kind = "OM" /\ Decoded /\ SizeOk /\ OM_BOUNCE_SEQ \in record.flags)
        => /\ all_zero(record.bounce_seq0_name) =>
                /\ ~result.ok
                /\ Failing(OM_checks_before_bounce_seq(record, at)) = {} =>
                     /\ result.label = "Expected at least one bounce sequence"
                     /\ result.off = at + 196
           /\ result.ok =>
                /\ SlotText(record.bounce_seq0_name) # <<>>
                /\ result.val.bounce_sequence =
                     Some(<< Some(SlotText(record.bounce_seq0_name)),
                             IF SlotText(record.bounce_seq1_name) # <<>>
                             THEN Some(SlotText(record.bounce_seq1_name)) ELSE None,
                             IF SlotText(record.bounce_seq2_name) # <<>>
                             THEN Some(SlotText(record.bounce_seq2_name)) ELSE None >>)

\* BOUNCE_SEQ with a zero first slot and a name in the second, rejected at
\* start + 196
C11_Witness ==
    /\ kind = "OM" /\ Decoded /\ SizeOk /\ at = 1000
    /\ OM_BOUNCE_SEQ \in record.flags
    /\ all_zero(record.bounce_seq0_name) /\ ~all_zero(record.bounce_seq1_name)
    /\ ~result.ok /\ result.label = "Expected at least one bounce sequence"
    /\ result.off = 1196

\* an accepted record with a first and a second name and no third
C11_WitnessAccepted ==
    /\ kind = "OM" /\ Decoded /\ SizeOk /\ result.ok
    /\ OM_BOUNCE_SEQ \in record.flags
    /\ ~all_zero(record.bounce_seq1_name) /\ all_zero(record.bounce_seq2_name)
    /\ Get(result.val.bounce_sequence)[3] = None

\* the three endpoint flags of each end of a connector
OC_FromFlags == {OC_FROM_NODE, OC_FROM_INPUT_NODE, OC_FROM_INPUT_POS}
OC_ToFlags == {OC_TO_NODE, OC_TO_INPUT_NODE, OC_TO_INPUT_POS}
ExactlyOne(flags, S) == Cardinality(flags \cap S) = 1
OC_Exclusive(flags) == ExactlyOne(flags, OC_FromFlags) /\ ExactlyOne(flags, OC_ToFlags)

\* C12: ObjectConnector::read succeeds only if exactly one of FROM_NODE,
\* FROM_INPUT_NODE, FROM_INPUT_POS and exactly one of TO_NODE, TO_INPUT_NODE,
\* TO_INPUT_POS is set; a flag word with two or none of them is rejected, at
\* the flags offset (record start + 0) when the fields asserted before the
\* endpoint flags (field 10, the node index, the from index) are valid; and
\* ObjectConnector::write always emits exactly one per endpoint.
C12_EndpointExclusive ==
    /\ (kind = "OC" /\ Decoded /\ SizeOk)
          => /\ result.ok => OC_Exclusive(record.flags)
             /\ ~OC_Exclusive(record.flags) =>
                  /\ ~result.ok
                  /\ ( /\ record.pad10 = 0
                       /\ HasIndex(NodeTable, record.node_index)
                       /\ OC_FROM_NODE \in record.flags
                             => HasIndex(NodeTable, record.from_index) )
                        => result.off = at + 0
    /\ (kind = "OC" /\ pc = "encoded" /\ Untouched) => OC_Exclusive(record.flags)

\* FROM_NODE and FROM_INPUT_NODE both set, rejected at the flags offset
C12_Witness ==
    /\ kind = "OC" /\ Decoded /\ SizeOk /\ at = 1000
    /\ {OC_FROM_NODE, OC_FROM_INPUT_NODE} \subseteq record.flags
    /\ record.flags \subseteq ObjectConnectorFlags
    /\ ~result.ok /\ result.off = 1000
    /\ result.label = "object connector from input node"

\* no to-endpoint flag at all, rejected at the flags offset
C12_WitnessNone ==
    /\ kind = "OC" /\ Decoded /\ SizeOk /\ at = 1000
    /\ record.flags \cap OC_ToFlags = {}
    /\ ExactlyOne(record.flags, OC_FromFlags)
    /\ ~result.ok /\ result.off = 1000

\* the read calls of a CountingReader
ReadCalls == DOMAIN ScalarLen \cup {"read_struct", "read_exact"}

\* C13: starting from CountingReader::new (offset = prev = 0), after any
\* sequence of successful read_u16 / read_i16 / read_u32 / read_i32 /
\* read_f32 / read_struct / read_exact calls, offset is the number of bytes
\* consumed from the stream, prev is the offset as it was before the most
\* recent read, offset - prev is the size of that read, and prev <= offset.
C13_OffsetTracking ==
    (io = "stream" /\ call.allok)
        => /\ cr.offset = cr.inner.pos
           /\ cr.prev = call.pre
           /\ cr.offset - cr.prev = call.size
           /\ cr.prev <= cr.offset

\* three successful reads, the last one a read_struct after a scalar
C13_Witness ==
    /\ io = "stream" /\ call.allok /\ call.calls = 3
    /\ call.name = "read_struct" /\ call.before.prev < call.before.offset
    /\ cr.prev > 0 /\ cr.offset = cr.prev + 12

\* C14: when the stream has fewer bytes left than a read requests, the read
\* returns the stream's I/O error, not an assertion error, and offset and
\* prev are as they were before the call.
C14_ShortRead ==
    (io = "stream" /\ call.name \in ReadCalls
     /\ call.before.inner.len - call.before.inner.pos < call.n)
        => /\ call.ret = "io"
           /\ cr.offset = call.before.offset
           /\ cr.prev = call.before.prev

\* a read_struct that meets the end of a stream it had already read from,
\* on a stream that consumed the bytes that were left
C14_Witness ==
    /\ io = "stream" /\ call.name = "read_struct" /\ call.ret = "io"
    /\ call.before.offset > call.before.prev
    /\ cr.inner.pos > call.before.inner.pos
    /\ cr.offset = call.before.offset /\ cr.prev = call.before.prev

\* C15: assert_end returns Ok exactly when the stream has no unconsumed
\* byte, and otherwise fails with an assertion error at the reader's
\* current offset; it leaves offset and prev unchanged; and read_gamez never
\* returns Ok for a file with bytes after its last section: when all its
\* sections are read, it fails with that error at the end of the last one.
C15_AssertEnd ==
    /\ (io = "stream" /\ call.name = "assert_end")
          => /\ (call.ret = "Ok") = (call.before.inner.pos = call.before.inner.len)
             /\ call.ret # "Ok" =>
                  /\ call.ret = "assert"
                  /\ call.label = "all data to be read"
                  /\ call.off = call.before.offset
             /\ cr.offset = call.before.offset
             /\ cr.prev = call.before.prev
    /\ (io = "read" /\ gfile.len > SectionsEnd(gfile))
          => /\ gres.ret # "Ok"
             /\ gres.self.offset = SectionsEnd(gfile) =>
                  /\ gres.ret = "assert"
                  /\ gres.label \in {"all data to be read", "section"}
                  /\ gres.label = "all data to be read" => gres.off = SectionsEnd(gfile)

\* a gamez file with two textures and one byte after the nodes section
C15_Witness ==
    /\ io = "read" /\ Len(gfile.textures) = 2
    /\ gfile.len = SectionsEnd(gfile) + 1
    /\ gres.ret = "assert" /\ gres.label = "all data to be read"
    /\ gres.off = SectionsEnd(gfile)

\* assert_end failing after a read, and succeeding at the end of the stream
C15_WitnessCall ==
    /\ io = "stream" /\ call.name = "assert_end" /\ call.ret = "assert"
    /\ call.off > 0 /\ cr.offset = call.off /\ cr.prev < cr.offset
C15_WitnessCallOk ==
    /\ io = "stream" /\ call.name = "assert_end" /\ call.ret = "Ok" /\ cr.offset > 0

\* the reader's running offset where each section of a gamez file begins:
\* the 36-byte header, then 40 bytes per texture info the header counts,
\* then the materials and the meshes
TexturesAt(f) == 36
MaterialsAt(f) == 36 + 40 * f.header.texture_count
MeshesAt(f) == MaterialsAt(f) + f.materials.size
NodesAt(f) == MeshesAt(f) + f.meshes.size

\* C17: read_gamez (on a reader started at 0) returns Ok only if the
\* header's textures, materials, meshes and nodes offsets each equal the
\* reader's running offset where that section begins (36 for the textures);
\* with a mismatching offset the reader never gets past the start of that
\* section, and the "<section> offset" error is reported at that running
\* offset with nothing of the section read; and the header write_gamez emits
\* has textures_offset = 36 and materials_offset = 36 + 40 * texture_count,
\* which read_gamez accepts.
C17_SectionOffsets ==
    /\ io = "read" =>
          LET h == gfile.header
              at_end == gres.self.offset
          IN /\ gres.ret = "Ok" =>
                  /\ h.textures_offset = TexturesAt(gfile)
                  /\ h.materials_offset = MaterialsAt(gfile)
                  /\ h.meshes_offset = MeshesAt(gfile)
                  /\ h.nodes_offset = NodesAt(gfile)
             /\ h.textures_offset # TexturesAt(gfile) => at_end <= TexturesAt(gfile)
             /\ h.materials_offset # MaterialsAt(gfile) => at_end <= MaterialsAt(gfile)
             /\ h.meshes_offset # MeshesAt(gfile) => at_end <= MeshesAt(gfile)
             /\ h.nodes_offset # NodesAt(gfile) => at_end <= NodesAt(gfile)
             /\ gres.label = "textures offset" =>
                  gres.off = TexturesAt(gfile) /\ at_end = gres.off
             /\ gres.label = "materials offset" =>
                  gres.off = MaterialsAt(gfile) /\ at_end = gres.off
             /\ gres.label = "meshes offset" =>
                  gres.off = MeshesAt(gfile) /\ at_end = gres.off
             /\ gres.label = "nodes offset" =>
                  gres.off = NodesAt(gfile) /\ at_end = gres.off
             /\ gpokes = 0 =>
                  gres.label \notin {"textures offset", "materials offset",
                                     "meshes offset", "nodes offset"}
    /\ (io = "file" /\ gpokes = 0) =>
          /\ gfile.header.texture_count = Len(gamez.textures)
          /\ gfile.header.textures_offset = 36
          /\ gfile.header.materials_offset = 36 + 40 * Len(gamez.textures)

\* a file of two textures whose materials offset is off by one, rejected
\* at 116 with the reader at 116
C17_Witness ==
    /\ io = "read" /\ gfile.header.texture_count = 2
    /\ gfile.header.materials_offset = 117
    /\ gres.ret = "assert" /\ gres.label = "materials offset"
    /\ gres.off = 116 /\ gres.self.offset = 116 /\ gres.self.prev = 76

\* a written file of two textures, accepted
C17_WitnessAccepted ==
    /\ io = "read" /\ gpokes = 0 /\ Len(gamez.textures) = 2
    /\ gres.ret = "Ok" /\ gfile.header.materials_offset = 116

SizeLabel(k) ==
    CASE k = "OM" -> "object motion size"
      [] k = "OC" -> "object connector size"
      [] k = "FT" -> "object motion from to size"
      [] k = "LA" -> "light animation size"
      [] k = "OOS" -> "object opacity state size"
      [] k = "COC" -> "call object connector size"

\* the reader as it was handed to read
ReaderBefore == [offset |-> at, prev |-> IF at = 0 THEN 0 ELSE at - 4]

\* C16: for each of the six variants, read called with a declared size
\* other than the variant's SIZE fails with the size assertion at the
\* reader's current offset, with offset and prev unchanged (no byte of the
\* record consumed), whatever is wrong with the fields of the record.
C16_SizeFirst ==
    (kind \in Variants /\ Decoded /\ declared # SizeOfKind(kind))
        => /\ ~result.ok
           /\ result.label = SizeLabel(kind)
           /\ result.off = at
           /\ reader = ReaderBefore

\* a wrong size declared for an object-motion record with an invalid flag
\* word, at a non-zero start
C16_Witness ==
    /\ kind = "OM" /\ Decoded /\ declared = 324 /\ at = 1000
    /\ ~(record.flags \subseteq ObjectMotionFlags)
    /\ ~result.ok /\ result.off = 1000
    /\ reader.offset = 1000 /\ reader.prev = 996

\* the fields of an object-motion record that no flag controls
OM_FixedOnRead(c) ==
    /\ FEq(c.zero008, "+0") /\ FEq(c.zero016, "+0") /\ FEq(c.zero120, "+0")
    /\ \A f \in {"trans_delta_copy", "trans_initial_copy", "xyz_rotation_copy",
                  "scale_copy"} : Vec3Eq(c[f], Vec3_EMPTY)
    /\ c.bounce_snd1_index = 0 /\ FEq(c.bounce_snd1_volume, "+0")
    /\ c.bounce_snd2_index = 0 /\ FEq(c.bounce_snd2_volume, "+0")
    /\ c.bounce_seq0_sentinel = -1 /\ c.bounce_seq1_sentinel = -1
    /\ c.bounce_seq2_sentinel = -1

OM_FixedOnWrite(c) ==
    /\ c.zero008 = "+0" /\ c.zero016 = "+0" /\ c.zero120 = "+0"
    /\ \A f \in {"trans_delta_copy", "trans_initial_copy", "xyz_rotation_copy",
                  "scale_copy"} : c[f] = Vec3_EMPTY
    /\ c.bounce_snd1_index = 0 /\ c.bounce_snd1_volume = "+0"
    /\ c.bounce_snd2_index = 0 /\ c.bounce_snd2_volume = "+0"
    /\ c.bounce_seq0_sentinel = -1 /\ c.bounce_seq1_sentinel = -1
    /\ c.bounce_seq2_sentinel = -1

\* C18: whatever the flag word, ObjectMotion::read accepts a record only if
\* the floats at 8, 16 and 120 are 0.0, the four copy Vec3 are zero, the
\* second and third bounce-sound slots have index 0 and volume 0.0, and the
\* three bounce-sequence sentinels are -1; and ObjectMotion::write emits
\* exactly these values for every value.
C18_Unconditional ==
    /\ (kind = "OM" /\ Decoded /\ result.ok) => OM_FixedOnRead(record)
    /\ (kind = "OM" /\ pc = "encoded" /\ Untouched) => OM_FixedOnWrite(record)

\* a record with every group present and a non-zero xyz rotation copy,
\* rejected
C18_Witness ==
    /\ kind = "OM" /\ Decoded /\ SizeOk
    /\ {OM_XYZ_ROTATION, OM_SCALE, OM_TRANSLATION, OM_BOUNCE_SOUND} \subseteq record.flags
    /\ ~Vec3Eq(record.xyz_rotation_copy, Vec3_EMPTY)
    /\ ~result.ok /\ result.label = "object motion xyz rot copy"

\* a record with every group present, accepted
C18_WitnessAccepted ==
    /\ kind = "OM" /\ Decoded /\ SizeOk /\ result.ok
    /\ {OM_XYZ_ROTATION, OM_SCALE, OM_TRANSLATION, OM_BOUNCE_SOUND} \subseteq record.flags

\* byte position of a field in a #[repr(C)] layout
FieldOffset(S, name) ==
    LET i == CHOOSE j \in 1..Len(S.fields) : S.fields[j].name = name
    IN AlignUp(EndOffset(S.fields, i - 1), S.fields[i].align)

\* the field of the record that each assertion of ObjectMotion::read tests
OM_FieldOfLabel(label) ==
    CASE label \in {"valid object motion flags", "object motion gravity complex",
                    "object motion gravity no altitude", "object motion fwd rot dist"}
            -> "flags"
      [] label = "node index" -> "node_index"
      [] label = "object motion field 008" -> "zero008"
      [] label = "object motion field 016" -> "zero016"
      [] label = "object motion gravity value" -> "gravity"
      [] label = "object motion trans range min 1" -> "trans_range_min_1"
      [] label = "object motion trans range min 2" -> "trans_range_min_2"
      [] label = "object motion trans range min 3" -> "trans_range_min_3"
      [] label = "object motion trans range min 4" -> "trans_range_min_4"
      [] label = "object motion trans range max 1" -> "trans_range_max_1"
      [] label = "object motion trans range max 2" -> "trans_range_max_2"
      [] label = "object motion trans range max 3" -> "trans_range_max_3"
      [] label = "object motion trans range max 4" -> "trans_range_max_4"
      [] label = "object motion trans delta" -> "trans_delta"
      [] label = "object motion trans initial" -> "trans_initial"
      [] label = "object motion field 100" -> "unk100"
      [] label = "object motion trans delta copy" -> "trans_delta_copy"
      [] label = "object motion trans initial copy" -> "trans_initial_copy"
      [] label = "object motion fwd rot 1" -> "forward_rotation_1"
      [] label = "object motion fwd rot 2" -> "forward_rotation_2"
      [] label = "object motion field 120" -> "zero120"
      [] label = "object motion xyz rot" -> "xyz_rotation"
      [] label = "object motion field 136" -> "unk136"
      [] label = "object motion xyz rot copy" -> "xyz_rotation_copy"
      [] label = "object motion scale" -> "scale"
      [] label = "object motion field 172" -> "unk172"
      [] label = "object motion scale copy" -> "scale_copy"
      [] label = "object motion bounce seq 0 sentinel" -> "bounce_seq0_sentinel"
      [] label = "object motion bounce seq 1 sentinel" -> "bounce_seq1_sentinel"
      [] label = "object motion bounce seq 2 sentinel" -> "bounce_seq2_sentinel"
      [] label \in {"object motion bounce seq 0", "object motion bounce seq 0 name",
                    "Expected at least one bounce sequence"} -> "bounce_seq0_name"
      [] label \in {"object motion bounce seq 1", "object motion bounce seq 1 name"}
            -> "bounce_seq1_name"
      [] label \in {"object motion bounce seq 2", "object motion bounce seq 2 name"}
            -> "bounce_seq2_name"
      [] label \in {"object motion bounce snd 0 index", "sound index"}
            -> "bounce_snd0_index"
      [] label = "object motion bounce snd 0 vol" -> "bounce_snd0_volume"
      [] label = "object motion bounce snd 1 index" -> "bounce_snd1_index"
      [] label = "object motion bounce snd 1 vol" -> "bounce_snd1_volume"
      [] label = "object motion bounce snd 2 index" -> "bounce_snd2_index"
      [] label = "object motion bounce snd 2 vol" -> "bounce_snd2_volume"
      [] label = "object motion runtime" -> "runtime"

\* a field assertion of ObjectMotion::read failed
OM_FieldError == kind = "OM" /\ Decoded /\ SizeOk /\ ~result.ok

\* C19: every field assertion that fails in ObjectMotion::read reports the
\* record's start offset plus the byte position of the tested field in the
\* 320-byte layout (scale copy at 184, bounce sound 0 index at 230).
C19_ErrorOffsets ==
    OM_FieldError
        => result.off = at + FieldOffset(ObjectMotionC, OM_FieldOfLabel(result.label))

\* the same for every field but the scale copy
C19_ErrorOffsetsElsewhere ==
    (OM_FieldError /\ result.label # "object motion scale copy")
        => result.off = at + FieldOffset(ObjectMotionC, OM_FieldOfLabel(result.label))

\* the positions the two examples of C19 name
C19_LayoutPositions ==
    /\ FieldOffset(ObjectMotionC, "scale_copy") = 184
    /\ FieldOffset(ObjectMotionC, "bounce_snd0_index") = 230

\* the flag word 1538 = 1024 | 512 | 2 as its set of bit positions
BitsOf(n) == {i \in 0..15 : (n \div (2 ^ i)) % 2 = 1}

\* C20: CallObjectConnector::read fails with the flags assertion at the
\* flags offset (record start + 0) for every flag word other than 1538;
\* CallObjectConnector::write always emits 1538 with node_index 0,
\* save_index -1, to_index 0 and a zero from_pos; and every written record
\* (from_node in the node table) is accepted by read.
C20_FixedFlags ==
    /\ (kind = "COC" /\ Decoded /\ SizeOk /\ record.flags # BitsOf(1538))
          => /\ ~result.ok
             /\ result.label = "call object connector flags"
             /\ result.off = at + 0
    /\ (kind = "COC" /\ pc = "encoded" /\ Untouched)
          => /\ record.flags = BitsOf(1538)
             /\ record.node_index = 0
             /\ record.save_index = -1
             /\ record.to_index = 0
             /\ record.from_pos = Vec3_EMPTY
    /\ (kind = "COC" /\ Decoded /\ SizeOk /\ Untouched) => result.ok

\* the flag word 1538 with one bit cleared, rejected at the flags offset
C20_Witness ==
    /\ kind = "COC" /\ Decoded /\ SizeOk /\ at = 1000
    /\ record.flags = BitsOf(1026)
    /\ ~result.ok /\ result.off = 1000

\* a written record for the last node of the table, accepted
C20_WitnessAccepted ==
    /\ kind = "COC" /\ Decoded /\ SizeOk /\ Untouched
    /\ value.from_node = NodeTable[NumNodes] /\ result.ok

\* C21: every accepted ObjectMotionFromTo and LightAnimation record has a
\* runtime > 0.0, and a record whose runtime is not > 0.0 is rejected
\* whatever its flags; an accepted ObjectMotion has runtime = Some(x) with
\* x > 0.0 exactly when RUNTIME is set, and runtime = None with a raw value
\* equal to 0.0 exactly when it is clear.
C21_RuntimePositive ==
    /\ (kind = "FT" /\ Decoded /\ SizeOk)
          => /\ result.ok => (FPos(result.val.run_time) /\ result.val.run_time = record.run_time)
             /\ ~FPos(record.run_time) => ~result.ok
    /\ (kind = "LA" /\ Decoded /\ SizeOk)
          => /\ result.ok => (FPos(result.val.runtime) /\ result.val.runtime = record.runtime)
             /\ ~FPos(record.runtime) => ~result.ok
    /\ (kind = "OM" /\ Decoded /\ SizeOk /\ result.ok)
          => /\ IsSome(result.val.runtime) = (OM_RUNTIME \in record.flags)
             /\ IsSome(result.val.runtime)
                  => (FPos(Get(result.val.runtime)) /\ Get(result.val.runtime) = record.runtime)
             /\ ~IsSome(result.val.runtime) => FEq(record.runtime, "+0")

\* a from-to record with a flag set and a negative run time, rejected there
C21_Witness ==
    /\ kind = "FT" /\ Decoded /\ SizeOk /\ at = 1000
    /\ record.run_time = "-1" /\ record.flags # {}
    /\ ~result.ok /\ result.label = "object motion from to runtime"
    /\ result.off = 1128

\* a light animation with runtime 0.0 rejected, and an object motion
\* accepted with and without the RUNTIME bit
C21_WitnessLight ==
    /\ kind = "LA" /\ Decoded /\ SizeOk /\ record.runtime = "+0"
    /\ ~result.ok /\ result.label = "light anim runtime"
C21_WitnessSome ==
    /\ kind = "OM" /\ Decoded /\ SizeOk /\ result.ok
    /\ OM_RUNTIME \in record.flags /\ result.val.runtime = Some("6")
C21_WitnessNone ==
    /\ kind = "OM" /\ Decoded /\ SizeOk /\ result.ok
    /\ OM_RUNTIME \notin record.flags /\ record.runtime = "-0"

\* the active word of an Object / Parent prerequisite body
AP_ActiveWord == le_u32(record.body, 0)

\* C22: the boolean fields decode strictly.  The 16-bit is_set and state of
\* an object opacity state, the 32-bit optional word of an activation
\* prerequisite and the 32-bit active word of an Object prerequisite decode
\* to false for raw 0 and to true for raw 1, and read fails for every other
\* raw value (at the field's offset when it is the first failing field).
C22_StrictBooleans ==
    /\ (kind = "OOS" /\ Decoded /\ SizeOk)
          => /\ record.is_set \notin {0, 1}
                  => /\ ~result.ok
                     /\ result.label = "object opacity state is set"
                     /\ result.off = at + 0
             /\ (record.is_set \in {0, 1} /\ record.state \notin {0, 1})
                  => /\ ~result.ok
                     /\ result.label = "object opacity state state"
                     /\ result.off = at + 2
             /\ result.ok
                  => /\ result.val.is_set = (record.is_set = 1)
                     /\ result.val.state = (record.state = 1)
                     /\ record.is_set = 0 => result.val.is_set = FALSE
                     /\ record.state = 0 => result.val.state = FALSE
    /\ (kind = "AP" /\ Decoded)
          => /\ record.optional \notin {0, 1}
                  => /\ ~result.ok
                     /\ result.label = "anim def activ prereq optional"
                     /\ result.off = at
             /\ (record.ptype = AP_Object /\ AP_ActiveWord \notin {0, 1}) => ~result.ok
             /\ (record.ptype = AP_Object /\ record.optional \in {0, 1}
                 /\ AP_ActiveWord \notin {0, 1})
                  => /\ result.label = "anim def activ prereq o active"
                     /\ result.off = at + 8
             /\ (result.ok /\ record.ptype \in {AP_Object, AP_Parent})
                  => result.val.required = (record.optional = 0)
             /\ (result.ok /\ record.ptype = AP_Object)
                  => result.val.active = (AP_ActiveWord = 1)

\* an Object prerequisite whose active word is 256, rejected at that word
C22_Witness ==
    /\ kind = "AP" /\ Decoded /\ at = 1000
    /\ record.ptype = AP_Object /\ record.optional = 0 /\ AP_ActiveWord = 256
    /\ ~result.ok /\ result.off = 1008

\* the other boolean fields rejected with raw 2, and both raw values decoded
C22_WitnessOptional ==
    /\ kind = "AP" /\ Decoded /\ record.optional = 2 /\ ~result.ok
C22_WitnessState ==
    /\ kind = "OOS" /\ Decoded /\ SizeOk /\ record.is_set = 1 /\ record.state = 2
    /\ ~result.ok /\ result.off = at + 2
C22_WitnessFalse ==
    /\ kind = "AP" /\ Decoded /\ record.ptype = AP_Object /\ result.ok
    /\ AP_ActiveWord = 0 /\ result.val.active = FALSE
    /\ record.optional = 1 /\ result.val.required = FALSE
C22_WitnessTrue ==
    /\ kind = "OOS" /\ Decoded /\ SizeOk /\ result.ok
    /\ record.is_set = 1 /\ result.val.is_set = TRUE
    /\ record.state = 0 /\ result.val.state = FALSE

\* the list run has read back what it wrote, all of it
ListReadBack == lpc = "read" /\ ppokes = 0 /\ pcount = Len(prereqs)

\* a prerequisite that read_activ_prereq can return
AP_decodable(v) ==
    v.tag \in {"Object", "Parent"}
        => (v.pointer # 0 /\ (v.tag = "Parent" => v.active = FALSE))

\* the bytes write_activ_prereqs emits are 48 per prerequisite, and the
\* boolean word of an Object or Parent is 1 exactly when required is false
AP_Written ==
    /\ SinkBytes(psink) = 48 * Len(prereqs)
    /\ Len(precs) = Len(prereqs)
    /\ \A i \in 1..Len(prereqs) :
          /\ precs[i].optional \in {0, 1}
          /\ prereqs[i].tag \in {"Object", "Parent"}
                => (precs[i].optional = 1) = (prereqs[i].required = FALSE)
          /\ prereqs[i].tag = "Animation" => precs[i].optional = 0

\* C23 as stated: for every list of prerequisites, read_activ_prereqs with
\* count = the list length, applied to the bytes of write_activ_prereqs,
\* returns an equal list.
C23_Stated ==
    ListReadBack => (pres.ok /\ pres.val = prereqs)

\* C23: for every list of prerequisites in which every Object and Parent has
\* a non-zero pointer and every Parent has active = false, read_activ_prereqs
\* with count = the list length, applied to the bytes of write_activ_prereqs,
\* returns an equal list and consumes 48 bytes per prerequisite; for every
\* list, the written boolean word is 1 exactly when required is false and
\* each prerequisite is written as 48 bytes; and whenever the written list is
\* read back, required is what was written.
C23_RoundTrip ==
    /\ (ListReadBack /\ \A i \in 1..Len(prereqs) : AP_decodable(prereqs[i]))
          => /\ pres.ok
             /\ pres.val = prereqs
             /\ pres.rd.offset = pat + 48 * Len(prereqs)
    /\ lpc \in {"written", "read"} /\ ppokes = 0 => AP_Written
    /\ (ListReadBack /\ pres.ok)
          => \A i \in 1..Len(prereqs) :
                prereqs[i].tag \in {"Object", "Parent"}
                    => pres.val[i].required = prereqs[i].required

\* an optional Object and an optional Parent read back in order at 1000
C23_Witness ==
    /\ ListReadBack /\ pres.ok /\ pat = 1000 /\ Len(prereqs) = 2
    /\ prereqs[1].tag = "Object" /\ prereqs[1].required = FALSE /\ prereqs[1].active
    /\ prereqs[2].tag = "Parent" /\ prereqs[2].required = FALSE
    /\ pres.val = prereqs /\ pres.rd.offset = 1096

\* a Parent with active = true, written and then rejected
C23_WitnessParent ==
    /\ ListReadBack /\ Len(prereqs) = 1
    /\ prereqs[1].tag = "Parent" /\ prereqs[1].active /\ prereqs[1].pointer # 0
    /\ ~pres.ok /\ pres.label = "anim def activ prereq p active"

\* C24: read_activ_prereq fails for every type word other than 1
\* (Animation), 2 (Object) and 3 (Parent); when the boolean word before it
\* is 0 or 1, the error is the invalid-type one, it names the raw type word
\* and the offset of the type word (start + 4), and the reader has consumed
\* the two words only: the 40-byte body is not read.
C24_UnknownType ==
    (kind = "AP" /\ Decoded /\ record.ptype \notin {AP_Animation, AP_Object, AP_Parent})
        => /\ ~result.ok
           /\ record.optional \in {0, 1}
                => /\ result.label = "valid activ prereq type"
                   /\ result.was = record.ptype
                   /\ result.off = at + 4
                   /\ result.rd.offset = at + 8
                   /\ result.rd.prev = at + 4

\* type word 4 at stream offset 1000, reported at 1004
C24_Witness ==
    /\ kind = "AP" /\ Decoded /\ at = 1000 /\ record.ptype = 4
    /\ ~result.ok /\ result.off = 1004 /\ result.rd.offset = 1008

\* type word 0, and a known type word whose body is read
C24_WitnessZero ==
    /\ kind = "AP" /\ Decoded /\ record.ptype = 0 /\ record.optional = 1
    /\ result.label = "valid activ prereq type"
C24_WitnessKnown ==
    /\ kind = "AP" /\ Decoded /\ record.ptype = AP_Parent
    /\ result.rd.offset = at + 48

\* read_activ_prereq on the i-th prerequisite of the stream, taken by itself
\* at its own offset
PrereqAt(i) ==
    read_activ_prereq([offset |-> pat + 48 * (i - 1), prev |-> pat], precs[i])

\* the prerequisites among the first pcount that cannot be read: the stream
\* ends before them, or read_activ_prereq fails on them
BadPrereqs == {i \in 1..pcount : i > Len(precs) \/ ~PrereqAt(i).ok}
FirstBadPrereq == CHOOSE i \in BadPrereqs : \A j \in BadPrereqs : i <= j

\* C25: read_activ_prereqs(count) returns either exactly count prerequisites
\* in stream order, or the error of the first prerequisite that fails; on a
\* failure it returns no list, and the reader stands where that prerequisite
\* left it: nothing after it is read from the stream.
C25_FailFast ==
    lpc = "read"
        => IF BadPrereqs = {}
           THEN /\ pres.ok
                /\ Len(pres.val) = pcount
                /\ \A i \in 1..pcount : pres.val[i] = PrereqAt(i).val
                /\ pres.rd.offset = pat + 48 * pcount
           ELSE LET k == FirstBadPrereq
                IN /\ ~pres.ok
                   /\ pres.val = NoVal
                   /\ pres.rd.offset <= pat + 48 * k
                   /\ IF k > Len(precs)
                      THEN pres.label = "io" /\ pres.rd.offset = pat + 48 * (k - 1)
                      ELSE /\ pres.label = PrereqAt(k).label
                           /\ pres.off = PrereqAt(k).off
                           /\ pres.rd.offset = PrereqAt(k).rd.offset

\* the first of two prerequisites fails at its type word, the second is good
\* and is not read
C25_Witness ==
    /\ lpc = "read" /\ pcount = 2 /\ Len(precs) = 2 /\ pat = 1000
    /\ precs[1].ptype = 4 /\ PrereqAt(2).ok
    /\ ~pres.ok /\ pres.off = 1004 /\ pres.rd.offset = 1008

\* the second prerequisite fails after the first was read; two are returned
\* in stream order
C25_WitnessSecond ==
    /\ lpc = "read" /\ pcount = 2 /\ Len(precs) = 2 /\ pat = 1000
    /\ PrereqAt(1).ok /\ ~PrereqAt(2).ok
    /\ ~pres.ok /\ pres.off = 1048 + 8 + 36
C25_WitnessAll ==
    /\ lpc = "read" /\ pcount = 2 /\ pres.ok
    /\ pres.val[1].tag = "Parent" /\ pres.val[2].tag = "Animation"

\* a command returned the error of its decoder
DecodeFailed == cpc = "done" /\ cres.err = "decode"

\* C26: for every unzbd extraction command (gamez, anim, and the commands
\* that go through _zarchive), when decoding the input asset fails, no
\* output file has been created or written: the output path is as it was
\* before the command ran.
C26_NoOutputOnFailure ==
    DecodeFailed => cout = cres.before

\* the same for the gamez command alone, which decodes before it creates
C26_GamezNoOutput ==
    (DecodeFailed /\ cmd = "gamez") => cout = cres.before

\* anim and the archive commands fail in their decoder with the output file
\* created, and with the entries of the assets decoded before the failure
C26_AnimOutputLeft ==
    (DecodeFailed /\ cmd # "gamez")
        => /\ cout.exists /\ ~cout.finished
           /\ cout # cres.before
           /\ Len(cout.entries) <= Len(cin.entries)

\* the index fields a read resolves through the cross-reference context,
\* with the table and the error of each lookup
Lookup(table, label, field) == [table |-> table, label |-> label, field |-> field]
NodeLookup(field) == Lookup(NodeTable, "node index", field)
Lookups(k, c) ==
    CASE k = "OM" ->
            {NodeLookup("node_index")}
            \cup (IF OM_BOUNCE_SOUND \in c.flags
                  THEN {Lookup(SoundTable, "sound index", "bounce_snd0_index")} ELSE {})
      [] k = "OC" ->
            {NodeLookup("node_index")}
            \cup (IF OC_FROM_NODE \in c.flags THEN {NodeLookup("from_index")} ELSE {})
            \cup (IF OC_TO_NODE \in c.flags THEN {NodeLookup("to_index")} ELSE {})
      [] k = "FT" -> {NodeLookup("node_index")}
      [] k = "OOS" -> {NodeLookup("node_index")}
      [] k = "LA" -> {Lookup(LightTable, "light index", "light_index")}
      [] k = "COC" -> {NodeLookup("from_index")}
      [] OTHER -> {}

\* the lookups of the record that miss
Misses == {l \in Lookups(kind, record) : ~HasIndex(l.table, record[l.field])}

\* the record as write emitted it, and whether read accepts that one
WrittenRecord == ImageOf(kind, sink)
WrittenAccepted ==
    Read(kind, [offset |-> at, prev |-> at], WrittenRecord, declared).ok

\* the names of a decoded value are the table entries at the record's indices
NamesFromTables ==
    CASE kind = "OM" ->
            /\ result.val.node = NodeTable[record.node_index]
            /\ IsSome(result.val.bounce_sound)
                  => Get(result.val.bounce_sound).name = SoundTable[record.bounce_snd0_index]
      [] kind = "OC" ->
            /\ result.val.node = NodeTable[record.node_index]
            /\ OC_FROM_NODE \in record.flags
                  => result.val.from_node = Some(NodeTable[record.from_index])
            /\ OC_TO_NODE \in record.flags
                  => result.val.to_node = Some(NodeTable[record.to_index])
      [] kind \in {"FT", "OOS"} -> result.val.node = NodeTable[record.node_index]
      [] kind = "LA" -> result.val.name = LightTable[record.light_index]
      [] kind = "COC" -> result.val.from_node = NodeTable[record.from_index]
      [] OTHER -> TRUE

\* C27: in every variant, when an index field that read resolves through the
\* cross-reference context (node_index, from_index / to_index under
\* FROM_NODE / TO_NODE, the bounce sound index under BOUNCE_SOUND,
\* light_index, the call object connector's from_index) is not in its table,
\* read fails; a lookup error is reported at the byte position of a missing
\* index field; a record that differs from an accepted one in that index
\* only fails with the lookup's error at that field; and the names of an
\* accepted record are the table entries at its indices.
C27_LookupMiss ==
    (kind # "AP" /\ Decoded /\ SizeOk)
        => /\ Misses # {} => ~result.ok
           /\ (~result.ok /\ result.label \in {"node index", "sound index", "light index"})
                => \E l \in Misses :
                      /\ result.label = l.label
                      /\ result.off = at + FieldOffset(LayoutOfKind(kind), l.field)
           /\ \A l \in Misses :
                (WrittenAccepted /\ record = [WrittenRecord EXCEPT ![l.field] = record[l.field]])
                    => /\ ~result.ok
                       /\ result.label = l.label
                       /\ result.off = at + FieldOffset(LayoutOfKind(kind), l.field)
           /\ result.ok => NamesFromTables

\* an object connector whose to_index is one past the node table
C27_Witness ==
    /\ kind = "OC" /\ Decoded /\ SizeOk /\ at = 1000
    /\ OC_TO_NODE \in record.flags /\ record.to_index = NumNodes + 1
    /\ ~result.ok /\ result.label = "node index" /\ result.off = 1008

\* the other lookups missing: sound, light, call object connector, index 0
C27_WitnessSound ==
    /\ kind = "OM" /\ Decoded /\ SizeOk /\ record.bounce_snd0_index = NumSounds + 1
    /\ ~result.ok /\ result.label = "sound index" /\ result.off = at + 230
C27_WitnessLight ==
    /\ kind = "LA" /\ Decoded /\ SizeOk /\ record.light_index = 0
    /\ ~result.ok /\ result.label = "light index" /\ result.off = at + 32
C27_WitnessCall ==
    /\ kind = "COC" /\ Decoded /\ SizeOk /\ record.from_index = 0
    /\ ~result.ok /\ result.label = "node index" /\ result.off = at + 40
C27_WitnessFrom ==
    /\ kind = "OC" /\ Decoded /\ SizeOk /\ result.ok
    /\ OC_FROM_NODE \in record.flags /\ record.from_index = NumNodes

\* the flag words whose mode bits contradict each other
OM_BothRotationModes(flags) ==
    OM_FORWARD_ROTATION_TIME \in flags /\ OM_FORWARD_ROTATION_DISTANCE \in flags
OM_BothGravityModes(flags) ==
    OM_GRAVITY_COMPLEX \in flags /\ OM_GRAVITY_NO_ALTITUDE \in flags
OM_GravityModeAlone(flags) ==
    /\ OM_GRAVITY \notin flags
    /\ (OM_GRAVITY_COMPLEX \in flags \/ OM_GRAVITY_NO_ALTITUDE \in flags)
OM_ModeConflict(flags) ==
    OM_BothRotationModes(flags) \/ OM_BothGravityModes(flags) \/ OM_GravityModeAlone(flags)

\* the bits that select a mode
OM_ModeBits ==
    {OM_FORWARD_ROTATION_DISTANCE, OM_FORWARD_ROTATION_TIME,
     OM_GRAVITY_COMPLEX, OM_GRAVITY_NO_ALTITUDE}
OM_OnlyModeBitsDiffer(a, b) ==
    ((a \ b) \cup (b \ a)) \subseteq OM_ModeBits

OM_ModeLabels ==
    {"object motion fwd rot dist", "object motion gravity complex",
     "object motion gravity no altitude"}

\* C28: ObjectMotion::read rejects every flag word that has both
\* FORWARD_ROTATION_TIME and FORWARD_ROTATION_DISTANCE, or both
\* GRAVITY_COMPLEX and GRAVITY_NO_ALTITUDE, or a gravity sub-flag without
\* GRAVITY; the mode assertions report the flag word (record start + 0), and
\* they are what fails when such a flag word is all that
\* differs from an accepted record and only its mode bits differ;
\* ObjectMotion::write emits no such flag word.
C28_ExclusiveModes ==
    /\ (kind = "OM" /\ Decoded /\ SizeOk /\ OM_ModeConflict(record.flags))
          => /\ ~result.ok
             /\ result.label \in OM_ModeLabels => result.off = at + 0
             /\ (WrittenAccepted /\ record = [WrittenRecord EXCEPT !.flags = record.flags]
                 /\ OM_OnlyModeBitsDiffer(WrittenRecord.flags, record.flags))
                  => result.label \in OM_ModeLabels
    /\ (kind = "OM" /\ Decoded /\ SizeOk /\ result.ok)
          => ~OM_ModeConflict(record.flags)
    /\ (kind = "OM" /\ pc # "value" /\ wok /\ Untouched)
          => ~OM_ModeConflict(record.flags)

\* both rotation bits set in an otherwise accepted record, rejected at the
\* flag word
C28_Witness ==
    /\ kind = "OM" /\ Decoded /\ SizeOk /\ at = 1000
    /\ OM_BothRotationModes(record.flags) /\ ~OM_BothGravityModes(record.flags)
    /\ ~result.ok /\ result.label = "object motion fwd rot dist" /\ result.off = 1000

\* the gravity conflicts rejected, and each mode written by itself
C28_WitnessGravity ==
    /\ kind = "OM" /\ Decoded /\ SizeOk /\ OM_BothGravityModes(record.flags)
    /\ OM_GRAVITY \in record.flags
    /\ ~result.ok /\ result.label = "object motion gravity complex"
C28_WitnessAlone ==
    /\ kind = "OM" /\ Decoded /\ SizeOk /\ OM_GravityModeAlone(record.flags)
    /\ OM_GRAVITY_NO_ALTITUDE \in record.flags
    /\ ~result.ok /\ result.label = "object motion gravity no altitude"
C28_WitnessWritten ==
    /\ kind = "OM" /\ pc = "encoded" /\ Untouched
    /\ OM_FORWARD_ROTATION_DISTANCE \in record.flags
    /\ OM_GRAVITY \in record.flags
C28_WitnessWrittenMode ==
    /\ kind = "OM" /\ pc = "encoded" /\ Untouched
    /\ OM_GRAVITY_NO_ALTITUDE \in record.flags
    /\ OM_FORWARD_ROTATION_TIME \in record.flags

\* C29: ObjectConnector::read accepts FROM_POS (TO_POS) only when
\* FROM_INPUT_POS (TO_INPUT_POS) is clear, and accepts a record with neither
\* FROM_NODE nor FROM_INPUT_NODE (neither TO_NODE nor TO_INPUT_NODE) only
\* when FROM_INPUT_POS (TO_INPUT_POS) is set; hence in every decoded value
\* from_pos is present only if from_node is, and to_pos only if to_node is;
\* and a value with a position present and its node absent is written as a
\* record that read rejects.
C29_PositionsNeedNodes ==
    /\ (kind = "OC" /\ Decoded /\ SizeOk /\ result.ok)
          => /\ OC_FROM_POS \in record.flags => OC_FROM_INPUT_POS \notin record.flags
             /\ OC_TO_POS \in record.flags => OC_TO_INPUT_POS \notin record.flags
             /\ (OC_FROM_NODE \notin record.flags /\ OC_FROM_INPUT_NODE \notin record.flags)
                  => OC_FROM_INPUT_POS \in record.flags
             /\ (OC_TO_NODE \notin record.flags /\ OC_TO_INPUT_NODE \notin record.flags)
                  => OC_TO_INPUT_POS \in record.flags
             /\ IsSome(result.val.from_pos) => IsSome(result.val.from_node)
             /\ IsSome(result.val.to_pos) => IsSome(result.val.to_node)
    /\ (kind = "OC" /\ Decoded /\ SizeOk /\ Untouched
        /\ ((~IsSome(value.from_node) /\ IsSome(value.from_pos))
            \/ (~IsSome(value.to_node) /\ IsSome(value.to_pos))))
          => /\ ~result.ok
             /\ result.label = "object connector from input pos"
             /\ result.off = at + 0

\* from_node absent and from_pos present: written, and rejected at the flags
C29_Witness ==
    /\ kind = "OC" /\ Decoded /\ SizeOk /\ Untouched /\ at = 1000
    /\ value.from_node = None /\ IsSome(value.from_pos) /\ IsSome(value.to_node)
    /\ OC_FROM_POS \in record.flags /\ OC_FROM_INPUT_POS \in record.flags
    /\ ~result.ok /\ result.off = 1000

\* the same for the to endpoint, and positions accepted with both kinds of node
C29_WitnessTo ==
    /\ kind = "OC" /\ Decoded /\ SizeOk /\ Untouched
    /\ value.to_node = None /\ IsSome(value.to_pos) /\ IsSome(value.from_node)
    /\ ~result.ok
C29_WitnessAccepted ==
    /\ kind = "OC" /\ Decoded /\ SizeOk /\ result.ok
    /\ result.val.to_node = Some(INPUT_NODE) /\ IsSome(result.val.to_pos)
C29_WitnessPoked ==
    /\ kind = "OC" /\ Decoded /\ SizeOk /\ pokes = 1
    /\ OC_FROM_NODE \in record.flags /\ OC_FROM_POS \in record.flags
    /\ OC_FROM_INPUT_POS \in record.flags /\ ~result.ok


-----------------------------------------------------------------------------
(* C30: PE section address translation stays inside the section.           *)

\* the virtual address minus the section's, once virt_to_real has run
PeDelta == pe_virt - pe_section.virtual_address

\* no addition of the run left the word
PeNoWrap ==
    /\ pe_section.virtual_address + pe_section.virtual_size < WordLimit
    /\ pe_section.pointer_to_raw_data + pe_section.size_of_raw_data < WordLimit

\* C30: virt_to_real returns an Underflow error for virt < virtual_address,
\* an Overflow error for virt beyond virtual_address + virtual_size, None
\* for an address in the uninitialised tail, and Some(real) only when
\* pointer_to_raw_data <= real < pointer_to_raw_data + size_of_raw_data;
\* and real_to_virt of that real returns the original virt.
C30_InsideSection ==
    /\ pe_pc \in {"real", "virt"} =>
        /\ pe_virt < pe_section.virtual_address => pe_real.tag = "Underflow"
        /\ (pe_virt >= pe_section.virtual_address
            /\ PeDelta > pe_section.virtual_size) => pe_real.tag = "Overflow"
        /\ pe_real.tag = "None" =>
            /\ PeDelta >= pe_section.size_of_raw_data
            /\ PeDelta <= pe_section.virtual_size
        /\ pe_real.tag = "Some" =>
            /\ pe_section.pointer_to_raw_data <= pe_real.val
            /\ pe_real.val < pe_section.pointer_to_raw_data
                                + pe_section.size_of_raw_data
    /\ pe_pc = "virt" => pe_back = PeSome(pe_virt)

\* C30 (what the code keeps): when no addition leaves the word, Some(real)
\* has pointer_to_raw_data <= real <= pointer_to_raw_data + size_of_raw_data,
\* the upper end included, the errors and None are as stated, and
\* real_to_virt returns the original virt.
C30_ClosedEnd ==
    PeNoWrap =>
        /\ pe_pc \in {"real", "virt"} =>
            /\ pe_virt < pe_section.virtual_address <=> pe_real.tag = "Underflow"
            /\ (pe_virt >= pe_section.virtual_address
                /\ PeDelta > pe_section.virtual_size) <=> pe_real.tag = "Overflow"
            /\ pe_real.tag = "None" <=>
                /\ pe_virt >= pe_section.virtual_address
                /\ PeDelta > pe_section.size_of_raw_data
                /\ PeDelta <= pe_section.virtual_size
            /\ pe_real.tag = "Some" =>
                /\ pe_real.val = pe_section.pointer_to_raw_data + PeDelta
                /\ pe_section.pointer_to_raw_data <= pe_real.val
                /\ pe_real.val <= pe_section.pointer_to_raw_data
                                    + pe_section.size_of_raw_data
        /\ pe_pc = "virt" => pe_back = PeSome(pe_virt)

\* C30 (the failing input): the address at the end of the raw data is
\* translated to the file offset one past the section's last byte
C30_EndReturned ==
    /\ pe_pc = "virt"
    /\ PeNoWrap
    /\ pe_section.size_of_raw_data > 0
    /\ PeDelta = pe_section.size_of_raw_data
    /\ pe_real = PeSome(pe_section.pointer_to_raw_data
                          + pe_section.size_of_raw_data)
    /\ pe_back = PeSome(pe_virt)

\* C30: with the end refused, every returned offset is inside the raw data
C30_StrictInside ==
    (/\ pe_pc \in {"real", "virt"}
     /\ PeNoWrap
     /\ virt_to_real_strict(pe_build, pe_section, pe_virt).tag = "Some") =>
        /\ pe_real.tag = "Some"
        /\ pe_real.val < pe_section.pointer_to_raw_data
                            + pe_section.size_of_raw_data

=============================================================================
